---- MODULE Spec2Model ----
(***************************************************************************)
(* Attestation service of FreeFlo: the request pipeline of POST /attest     *)
(* (authentication, rate limit, on-chain intent validation, presentation    *)
(* verification, expectation cross-check, EIP-712 signing).                 *)
(*                                                                          *)
(* Text (&str, String) is a TLA+ string; Char(s, i) is its i-th character.   *)
(* Byte buffers (Vec<u8>, [u8; N]) are sequences over 0..255.  Rust indexes  *)
(* from 0 and its ranges exclude the end: result[a..b] is                    *)
(* SubSeq(result, a + 1, b).                                                 *)
(***************************************************************************)
EXTENDS Integers, Sequences, FiniteSets, TLC

(***************************************************************************)
(* Option<T> and Result<T, E>                                               *)
(***************************************************************************)
NoneV == [some |-> FALSE]
Some(v) == [some |-> TRUE, val |-> v]
Ok(v) == [ok |-> TRUE, val |-> v]
Err(e) == [ok |-> FALSE, err |-> e]

\* A stage of a request that ran, with its outcome; Passed(names) are stages
\* that succeeded, in order.
Stage(name, ok) == [stage |-> name, ok |-> ok]
Passed(names) == [k \in 1..Len(names) |-> Stage(names[k], TRUE)]

(***************************************************************************)
(* Text helpers                                                             *)
(***************************************************************************)
\* the i-th character (from 1), "" outside the text
Char(s, i) == IF i >= 1 /\ i <= Len(s) THEN SubSeq(s, i, i) ELSE ""

\* lit occurs in s at position i (from 1)
StartsWithAt(s, i, lit) == i >= 1 /\ i + Len(lit) - 1 <= Len(s) /\ SubSeq(s, i, i + Len(lit) - 1) = lit

\* the concatenation of parts[lo..hi], texts or sequences, halving the range so
\* that long inputs do not nest deeply
RECURSIVE ConcatRange(_, _, _, _)
ConcatRange(parts, lo, hi, empty) ==
    IF lo > hi THEN empty
    ELSE IF lo = hi THEN parts[lo]
    ELSE LET mid == (lo + hi) \div 2
         IN  ConcatRange(parts, lo, mid, empty) \o ConcatRange(parts, mid + 1, hi, empty)

Concat(parts) == ConcatRange(parts, 1, Len(parts), "")
Flatten(seqs) == ConcatRange(seqs, 1, Len(seqs), <<>>)

SetMin(S) == CHOOSE i \in S : \A j \in S : i <= j
SetMax(S) == CHOOSE i \in S : \A j \in S : i >= j

\* the characters of s, as a set
CharsOf(s) == { Char(s, i) : i \in 1..Len(s) }

\* position (from 1) of the first occurrence of c in s; c must occur
IndexIn(s, c) == SetMin({i \in 1..Len(s) : Char(s, i) = c})

\* str::contains: needle occurs in hay as a contiguous substring
StrContains(hay, needle) ==
    \E i \in 0..(Len(hay) - Len(needle)) : SubSeq(hay, i + 1, i + Len(needle)) = needle

\* the 0-based positions at which needle occurs in hay
Occurrences(hay, needle) ==
    {i \in 0..(Len(hay) - Len(needle)) : SubSeq(hay, i + 1, i + Len(needle)) = needle}

\* str::find: Some(0-based index of the first occurrence) or None
StrFind(hay, needle) ==
    IF Occurrences(hay, needle) # {} THEN Some(SetMin(Occurrences(hay, needle))) ELSE NoneV

\* str::rfind: Some(0-based index of the last occurrence) or None
StrRFind(hay, needle) ==
    IF Occurrences(hay, needle) # {} THEN Some(SetMax(Occurrences(hay, needle))) ELSE NoneV

LowerAlpha == "abcdefghijklmnopqrstuvwxyz"
UpperAlpha == "ABCDEFGHIJKLMNOPQRSTUVWXYZ"
Digits == "0123456789"

\* char::to_lowercase and char::to_uppercase, as tables over the ASCII letters
LowerOf == [c \in CharsOf(UpperAlpha) |-> Char(LowerAlpha, IndexIn(UpperAlpha, c))]
UpperOf == [c \in CharsOf(LowerAlpha) |-> Char(UpperAlpha, IndexIn(LowerAlpha, c))]

to_lowercase(s) ==
    Concat([i \in 1..Len(s) |-> LET c == Char(s, i) IN IF c \in DOMAIN LowerOf THEN LowerOf[c] ELSE c])
to_uppercase(s) ==
    Concat([i \in 1..Len(s) |-> LET c == Char(s, i) IN IF c \in DOMAIN UpperOf THEN UpperOf[c] ELSE c])

\* str::trim_start_matches(prefix): removes every leading repetition of prefix
RECURSIVE trim_start_matches(_, _)
trim_start_matches(s, prefix) ==
    IF Len(prefix) > 0 /\ Len(s) >= Len(prefix) /\ SubSeq(s, 1, Len(prefix)) = prefix
    THEN trim_start_matches(SubSeq(s, Len(prefix) + 1, Len(s)), prefix)
    ELSE s

(***************************************************************************)
(* hex crate                                                                *)
(***************************************************************************)
LowerHex == "0123456789abcdef"
UpperHex == "0123456789ABCDEF"

\* the value of a hex digit, as a table
HexValOf ==
    [c \in CharsOf(LowerHex) \cup CharsOf(UpperHex) |->
        IF c \in CharsOf(LowerHex) THEN IndexIn(LowerHex, c) - 1 ELSE IndexIn(UpperHex, c) - 1]
\* the two lower-case hex digits of a byte, as a table
HexOfByte == [b \in 0..255 |-> Char(LowerHex, (b \div 16) + 1) \o Char(LowerHex, (b % 16) + 1)]

\* hex::decode: odd length and non-hex characters are errors, both letter cases decode
hex_decode(s) ==
    IF Len(s) % 2 = 1 THEN Err("Odd number of digits")
    ELSE IF \E i \in 1..Len(s) : Char(s, i) \notin DOMAIN HexValOf THEN Err("Invalid character")
    ELSE Ok([i \in 1..(Len(s) \div 2) |-> 16 * HexValOf[Char(s, 2 * i - 1)] + HexValOf[Char(s, 2 * i)]])

\* hex::encode: two lower-case digits per byte
hex_encode(bytes) ==
    Concat([i \in 1..Len(bytes) |-> HexOfByte[bytes[i]]])

(***************************************************************************)
(* Byte buffers                                                             *)
(***************************************************************************)
Rep(b, n) == [i \in 1..n |-> b]
Zeros(n) == Rep(0, n)
AddressZERO == Zeros(20)

\* big-endian bytes of a small non-negative integer, n bytes wide
RECURSIVE BeBytes(_, _)
BeBytes(v, n) == IF n = 0 THEN <<>> ELSE BeBytes(v \div 256, n - 1) \o <<v % 256>>

(***************************************************************************)
(* chain.rs: JSON-RPC transport                                             *)
(*                                                                          *)
(* A reply is what the endpoint did with one eth_call request:              *)
(*   transport  "ok", or "unreachable" when send() fails;                   *)
(*   parsed     whether the body deserializes as JsonRpcResponse (a JSON    *)
(*              object; both fields are Option, so an object carrying       *)
(*              neither "result" nor "error" does deserialize);             *)
(*   result     Option<String>;  error  Option<Value>.                      *)
(***************************************************************************)
Reply(transport, parsed, result, error) ==
    [transport |-> transport, parsed |-> parsed, result |-> result, error |-> error]

eth_call(reply) ==
    IF reply.transport # "ok" THEN Err("RPC request failed")
    ELSE IF ~reply.parsed THEN Err("Failed to parse RPC response")
    ELSE IF reply.error.some THEN Err("RPC error")
    ELSE LET result_hex == trim_start_matches(IF reply.result.some THEN reply.result.val ELSE "", "0x")
         IN  IF result_hex = "" THEN Ok(<<>>)
             ELSE LET d == hex_decode(result_hex)
                  IN  IF d.ok THEN d ELSE Err("Failed to decode result")

(***************************************************************************)
(* chain.rs: IntentStatus, get_intent, is_solver_authorized                 *)
(***************************************************************************)
\* IntentStatus::from, had it taken Fulfilled for Committed
IntentStatusFrom_lenient(v) ==
    CASE v = 1 -> "PendingQuote"
      [] v \in {2, 3} -> "Committed"
      [] v = 4 -> "Cancelled"
      [] v = 5 -> "Expired"
      [] OTHER -> "None"

IntentStatusFrom(v) ==
    CASE v = 1 -> "PendingQuote"
      [] v = 2 -> "Committed"
      [] v = 3 -> "Fulfilled"
      [] v = 4 -> "Cancelled"
      [] v = 5 -> "Expired"
      [] OTHER -> "None"

GetIntentSelector == hex_decode("f13c46aa").val
AuthorizedSolversSelector == hex_decode("f6e14bad").val
IntentMinLen == 288

\* calldata of getIntent(bytes32): selector, then the 32-byte hash
get_intent_calldata(intent_hash) == GetIntentSelector \o intent_hash

\* get_intent, had it reported a result below the minimum length as an error
get_intent_strict(reply) ==
    LET base == 32
        Decode(result) ==
            IF Len(result) < IntentMinLen THEN Err("Intent data too short")
            ELSE LET depositor == SubSeq(result, base + 12 + 1, base + 32)
                     usdc_amount == SubSeq(result, base + 32 + 1, base + 64)
                     status == IntentStatusFrom(result[base + 96 + 31 + 1])
                     selected_solver == SubSeq(result, base + 192 + 12 + 1, base + 224)
                 IN  IF depositor = AddressZERO THEN Ok(NoneV)
                     ELSE Ok(Some([owner |-> depositor, solver |-> selected_solver,
                                   amount |-> usdc_amount, status |-> status]))
        Called(r) == IF ~r.ok THEN r ELSE Decode(r.val)
    IN  Called(eth_call(reply))

\* get_intent from the point where the eth_call has been answered:
\* Err(message), Ok(None) for "no such intent", Ok(Some(OnChainIntent))
get_intent(reply) ==
    LET base == 32
        Decode(result) ==
            IF Len(result) < IntentMinLen THEN Ok(NoneV)
            ELSE LET depositor == SubSeq(result, base + 12 + 1, base + 32)
                     usdc_amount == SubSeq(result, base + 32 + 1, base + 64)
                     status == IntentStatusFrom(result[base + 96 + 31 + 1])
                     selected_solver == SubSeq(result, base + 192 + 12 + 1, base + 224)
                 IN  IF depositor = AddressZERO THEN Ok(NoneV)
                     ELSE Ok(Some([owner |-> depositor, solver |-> selected_solver,
                                   amount |-> usdc_amount, status |-> status]))
        Called(r) == IF ~r.ok THEN r ELSE Decode(r.val)
    IN  Called(eth_call(reply))

\* is_solver_authorized up to its eth_call: Err(message) or Ok(calldata)
is_solver_authorized_calldata(solver) ==
    LET solver_bytes == hex_decode(trim_start_matches(solver, "0x"))
    IN  IF ~solver_bytes.ok THEN Err("Invalid solver address")
        ELSE IF Len(solver_bytes.val) # 20 THEN Err("Solver address must be 20 bytes")
        ELSE Ok(AuthorizedSolversSelector \o Zeros(12) \o solver_bytes.val)

\* is_solver_authorized, had it taken any non-zero byte of the word for true
is_solver_authorized_any_byte(reply) ==
    LET Called(r) == IF ~r.ok THEN r
                     ELSE IF Len(r.val) < 32 THEN Ok(FALSE)
                     ELSE Ok(\E i \in 1..32 : r.val[i] # 0)
    IN  Called(eth_call(reply))

\* is_solver_authorized from the point where the eth_call has been answered
is_solver_authorized(reply) ==
    LET Called(r) == IF ~r.ok THEN r
                     ELSE IF Len(r.val) < 32 THEN Ok(FALSE)
                     ELSE Ok(r.val[31 + 1] # 0)
    IN  Called(eth_call(reply))

(***************************************************************************)
(* chain.rs: validate_intent, cut at its two suspension points.  A step    *)
(* either returns (Return), issues the next eth_call (Call) or panics.     *)
(***************************************************************************)
Return(res, steps) == [kind |-> "return", res |-> res, steps |-> steps]
Call(calldata, intent, steps) ==
    [kind |-> "call", calldata |-> calldata, intent |-> intent, steps |-> steps]
Panic(steps) == [kind |-> "panic", steps |-> steps]

\* U256::to::<u128>() panics when the value does not fit 128 bits
U256FitsU128(amount) == SubSeq(amount, 1, 16) = Zeros(16)

\* entry of validate_intent up to the eth_call of get_intent
validate_intent_begin(intent_hash) == Call(get_intent_calldata(intent_hash), NoneV, <<>>)

\* validate_intent_on_intent, had it compared the solver before the status
validate_intent_on_intent_solver_first(got, solver_address) ==
    LET intent == got.val.val
        solver_bytes == hex_decode(trim_start_matches(solver_address, "0x"))
        auth_call == is_solver_authorized_calldata(solver_address)
    IN  IF ~got.ok THEN Return(got, <<Stage("get_intent", FALSE)>>)
        ELSE IF ~got.val.some
        THEN Return(Err("Intent does not exist on-chain"), <<Stage("get_intent", FALSE)>>)
        ELSE IF intent.solver # AddressZERO /\ ~solver_bytes.ok
        THEN Return(Err("Invalid solver address"),
                    Passed(<<"get_intent">>) \o <<Stage("solver", FALSE)>>)
        ELSE IF intent.solver # AddressZERO /\ Len(solver_bytes.val) # 20
        THEN Panic(Passed(<<"get_intent">>) \o <<Stage("solver", FALSE)>>)
        ELSE IF intent.solver # AddressZERO /\ intent.solver # solver_bytes.val
        THEN Return(Err("Solver mismatch"),
                    Passed(<<"get_intent">>) \o <<Stage("solver", FALSE)>>)
        ELSE IF intent.status # "Committed"
        THEN Return(Err("Intent is not ready for fulfillment"),
                    Passed(<<"get_intent", "solver">>) \o <<Stage("status", FALSE)>>)
        ELSE IF ~auth_call.ok
        THEN Return(auth_call,
                    Passed(<<"get_intent", "solver", "status">>)
                    \o <<Stage("is_solver_authorized", FALSE)>>)
        ELSE Call(auth_call.val, Some(intent), Passed(<<"get_intent", "solver", "status">>))

\* validate_intent_on_intent, had it not compared the assigned solver
validate_intent_on_intent_unbound(got, solver_address) ==
    LET intent == got.val.val
        auth_call == is_solver_authorized_calldata(solver_address)
    IN  IF ~got.ok THEN Return(got, <<Stage("get_intent", FALSE)>>)
        ELSE IF ~got.val.some
        THEN Return(Err("Intent does not exist on-chain"), <<Stage("get_intent", FALSE)>>)
        ELSE IF intent.status # "Committed"
        THEN Return(Err("Intent is not ready for fulfillment"),
                    <<Stage("get_intent", TRUE), Stage("status", FALSE)>>)
        ELSE IF ~auth_call.ok
        THEN Return(auth_call,
                    Passed(<<"get_intent", "status", "solver">>)
                    \o <<Stage("is_solver_authorized", FALSE)>>)
        ELSE Call(auth_call.val, Some(intent), Passed(<<"get_intent", "status", "solver">>))

\* from the point where get_intent returned got up to the eth_call of
\* is_solver_authorized
validate_intent_on_intent(got, solver_address) ==
    LET intent == got.val.val
        solver_bytes == hex_decode(trim_start_matches(solver_address, "0x"))
        auth_call == is_solver_authorized_calldata(solver_address)
    IN  IF ~got.ok THEN Return(got, <<Stage("get_intent", FALSE)>>)
        ELSE IF ~got.val.some
        THEN Return(Err("Intent does not exist on-chain"), <<Stage("get_intent", FALSE)>>)
        ELSE IF intent.status # "Committed"
        THEN Return(Err("Intent is not ready for fulfillment"),
                    <<Stage("get_intent", TRUE), Stage("status", FALSE)>>)
        ELSE IF intent.solver # AddressZERO /\ ~solver_bytes.ok
        THEN Return(Err("Invalid solver address"),
                    Passed(<<"get_intent", "status">>) \o <<Stage("solver", FALSE)>>)
        \* Address::from_slice panics unless the slice has exactly 20 bytes
        ELSE IF intent.solver # AddressZERO /\ Len(solver_bytes.val) # 20
        THEN Panic(Passed(<<"get_intent", "status">>) \o <<Stage("solver", FALSE)>>)
        ELSE IF intent.solver # AddressZERO /\ intent.solver # solver_bytes.val
        THEN Return(Err("Solver mismatch"),
                    Passed(<<"get_intent", "status">>) \o <<Stage("solver", FALSE)>>)
        ELSE IF ~auth_call.ok
        THEN Return(auth_call,
                    Passed(<<"get_intent", "status", "solver">>)
                    \o <<Stage("is_solver_authorized", FALSE)>>)
        ELSE Call(auth_call.val, Some(intent), Passed(<<"get_intent", "status", "solver">>))

\* from the point where is_solver_authorized returned is_authorized to the end
\* of validate_intent
\* validate_intent_on_authorized, had a difference between the amounts been an
\* error instead of a debug line
validate_intent_on_authorized_enforced(is_authorized, intent, solver_address, expected_amount_cents) ==
        IF ~is_authorized.ok THEN Return(is_authorized, <<Stage("is_solver_authorized", FALSE)>>)
        ELSE IF ~is_authorized.val
        THEN Return(Err("Solver is not authorized"), <<Stage("is_solver_authorized", FALSE)>>)
        ELSE IF ~U256FitsU128(intent.amount)
        THEN Panic(<<Stage("is_solver_authorized", TRUE), Stage("amount", FALSE)>>)
        ELSE IF expected_amount_cents > 0 /\ intent.amount # BeBytes(expected_amount_cents, 32)
        THEN Return(Err("Amount mismatch"),
                    <<Stage("is_solver_authorized", TRUE), Stage("amount", FALSE)>>)
        ELSE Return(Ok("unit"), Passed(<<"is_solver_authorized", "amount", "validate_intent">>))

validate_intent_on_authorized(is_authorized, intent, solver_address, expected_amount_cents) ==
        IF ~is_authorized.ok THEN Return(is_authorized, <<Stage("is_solver_authorized", FALSE)>>)
        ELSE IF ~is_authorized.val
        THEN Return(Err("Solver is not authorized"), <<Stage("is_solver_authorized", FALSE)>>)
        ELSE IF ~U256FitsU128(intent.amount)
        THEN Panic(<<Stage("is_solver_authorized", TRUE), Stage("amount", FALSE)>>)
        ELSE Return(Ok("unit"), Passed(<<"is_solver_authorized", "amount", "validate_intent">>))

(***************************************************************************)
(* verification.rs: body extraction                                         *)
(***************************************************************************)
InvalidPaymentData(msg) == [kind |-> "InvalidPaymentData", msg |-> msg]

AlphanumericChars == CharsOf(LowerAlpha \o UpperAlpha \o Digits)
IsAlphanumeric(c) == c \in AlphanumericChars

\* the runs of characters between 'X' marks, in order (no run is empty): a run
\* starts at every character other than 'X' that begins the text or follows an 'X'
VisibleRuns(body) ==
    LET Visible(i) == i >= 1 /\ i <= Len(body) /\ Char(body, i) # "X"
        RunEnd(i) == SetMin({j \in i..Len(body) : ~Visible(j + 1)})
    IN  Flatten([i \in 1..Len(body) |->
                    IF Visible(i) /\ ~Visible(i - 1) THEN <<SubSeq(body, i, RunEnd(i))>> ELSE <<>>])

extract_visible_content(body) ==
    SelectSeq(VisibleRuns(body),
              LAMBDA part : Len(part) >= 3 /\ \E i \in 1..Len(part) : IsAlphanumeric(Char(part, i)))

\* {:?} of one character inside a string literal
DebugChar(c) ==
    CASE c = "\"" -> "\\\""
      [] c = "\\" -> "\\\\"
      [] c = "\n" -> "\\n"
      [] c = "\r" -> "\\r"
      [] c = "\t" -> "\\t"
      [] OTHER -> c

DebugEscape(s) == Concat([i \in 1..Len(s) |-> DebugChar(Char(s, i))])

\* {:?} of a Vec<String>: ["a", "b"]
DebugVec(parts) ==
    "[" \o Concat([k \in 1..Len(parts) |->
                      (IF k > 1 THEN ", " ELSE "") \o "\"" \o DebugEscape(parts[k]) \o "\""])
        \o "]"

extract_json_body(response) ==
    LET crlf == StrFind(response, "\r\n\r\n")
        lf == StrFind(response, "\n\n")
        body_start == IF crlf.some THEN Some(crlf.val + 4)
                      ELSE IF lf.some THEN Some(lf.val + 2) ELSE NoneV
    IN  IF ~body_start.some THEN Err(InvalidPaymentData("Could not find response body"))
        ELSE LET body == SubSeq(response, body_start.val + 1, Len(response))
                 json_start == StrFind(body, "{")
                 json_body == IF json_start.some THEN SubSeq(body, json_start.val + 1, Len(body)) ELSE ""
                 json_end == StrRFind(json_body, "}")
                 visible_content == extract_visible_content(body)
             IN  IF json_start.some /\ json_end.some
                 THEN Ok(SubSeq(json_body, 1, json_end.val + 1))
                 ELSE IF visible_content = <<>>
                 THEN Err(InvalidPaymentData("No visible content in response body"))
                 ELSE Ok("{\"_visible_content\": " \o DebugVec(visible_content) \o "}")

(***************************************************************************)
(* serde_json::from_str::<Value>, for the JSON subset the payment bodies    *)
(* use: objects, arrays, strings with the escapes \" \\ \/ \n \r \t,        *)
(* integers, decimals without exponent, true, false, null.                  *)
(*                                                                          *)
(* Values:  [t |-> "obj", v |-> function from keys to values]               *)
(*          [t |-> "arr", v |-> sequence]      [t |-> "str", v |-> text]    *)
(*          [t |-> "int", v |-> integer]                                    *)
(*          [t |-> "float", neg, mant, scale]  = (-)mant / 10^scale         *)
(*          [t |-> "bool", v |-> b]            [t |-> "null"]               *)
(***************************************************************************)
ParseFail == [ok |-> FALSE]
Parsed(v, next) == [ok |-> TRUE, val |-> v, next |-> next]

DigitValOf == [c \in CharsOf(Digits) |-> IndexIn(Digits, c) - 1]
IsDigit(c) == c \in DOMAIN DigitValOf

RECURSIVE SkipWs(_, _)
SkipWs(s, i) == IF i <= Len(s) /\ Char(s, i) \in {" ", "\n", "\r", "\t"} THEN SkipWs(s, i + 1) ELSE i

\* Numbers are computed for up to MaxDigits digits; a longer run of digits keeps
\* its length only (the sample bodies hold no number that long but for digit runs
\* of 20 and more digits, which overflow i64).
MaxDigits == 9

\* the digits starting at i: their value, their number and the position after them
RECURSIVE ParseDigits(_, _, _, _)
ParseDigits(s, i, n, cnt) ==
    IF i <= Len(s) /\ IsDigit(Char(s, i))
    THEN ParseDigits(s, i + 1, IF cnt < MaxDigits THEN 10 * n + DigitValOf[Char(s, i)] ELSE n, cnt + 1)
    ELSE [n |-> n, cnt |-> cnt, next |-> i]

\* the characters of a string literal whose opening quote is before i
RECURSIVE ParseStringBody(_, _, _)
ParseStringBody(s, i, acc) ==
    IF i > Len(s) THEN ParseFail
    ELSE LET c == Char(s, i)
         IN  IF c = "\"" THEN Parsed(acc, i + 1)
             ELSE IF c = "\\"
             THEN LET e == Char(s, i + 1)
                  IN  CASE e = "\"" -> ParseStringBody(s, i + 2, acc \o "\"")
                        [] e = "\\" -> ParseStringBody(s, i + 2, acc \o "\\")
                        [] e = "/"  -> ParseStringBody(s, i + 2, acc \o "/")
                        [] e = "n"  -> ParseStringBody(s, i + 2, acc \o "\n")
                        [] e = "r"  -> ParseStringBody(s, i + 2, acc \o "\r")
                        [] e = "t"  -> ParseStringBody(s, i + 2, acc \o "\t")
                        [] OTHER -> ParseFail
             ELSE IF c \in {"\n", "\r", "\t"} THEN ParseFail
             ELSE ParseStringBody(s, i + 1, acc \o c)

ParseNumber(s, i) ==
    LET neg == Char(s, i) = "-"
        j == IF neg THEN i + 1 ELSE i
        \* 10^k
        pow == [k \in 0..9 |-> CASE k = 0 -> 1 [] k = 1 -> 10 [] k = 2 -> 100 [] k = 3 -> 1000
                                 [] OTHER -> 10000]
        \* int are the digits before the point, frac those after it
        Number(int, frac) ==
            IF int.cnt = 0 \/ (int.cnt > 1 /\ Char(s, j) = "0") THEN ParseFail
            ELSE IF Char(s, int.next) = "."
            THEN IF frac.cnt = 0 \/ frac.cnt > 4 THEN ParseFail
                 ELSE IF int.cnt > MaxDigits - 4 THEN Parsed([t |-> "bignum"], frac.next)
                 ELSE Parsed([t |-> "float", neg |-> neg, mant |-> int.n * pow[frac.cnt] + frac.n,
                              scale |-> frac.cnt], frac.next)
            ELSE IF int.cnt > MaxDigits THEN Parsed([t |-> "bignum"], int.next)
            ELSE Parsed([t |-> "int", v |-> IF neg THEN 0 - int.n ELSE int.n], int.next)
        Fraction(int) == Number(int, ParseDigits(s, int.next + 1, 0, 0))
    IN  Fraction(ParseDigits(s, j, 0, 0))

RECURSIVE ParseValue(_, _)
RECURSIVE ParseMembers(_, _, _)
RECURSIVE ParseItems(_, _, _)

\* the members of an object after its '{' or after a ','; later duplicates win
ParseMembers(s, i, acc) ==
    LET Rest(key, val, after) ==
            IF Char(s, after) = "," THEN ParseMembers(s, after + 1, (key.val :> val.val) @@ acc)
            ELSE IF Char(s, after) = "}"
            THEN Parsed([t |-> "obj", v |-> (key.val :> val.val) @@ acc], after + 1)
            ELSE ParseFail
        Member(key, val) == IF val.ok THEN Rest(key, val, SkipWs(s, val.next)) ELSE ParseFail
        Colon(key, colon) ==
            IF Char(s, colon) = ":" THEN Member(key, ParseValue(s, colon + 1)) ELSE ParseFail
        Key(key) == IF key.ok THEN Colon(key, SkipWs(s, key.next)) ELSE ParseFail
        Quote(k0) == IF Char(s, k0) = "\"" THEN Key(ParseStringBody(s, k0 + 1, "")) ELSE ParseFail
    IN  Quote(SkipWs(s, i))

ParseItems(s, i, acc) ==
    LET val == ParseValue(s, i)
        after == IF val.ok THEN SkipWs(s, val.next) ELSE 0
    IN  IF ~val.ok THEN ParseFail
        ELSE IF Char(s, after) = "," THEN ParseItems(s, after + 1, Append(acc, val.val))
        ELSE IF Char(s, after) = "]" THEN Parsed([t |-> "arr", v |-> Append(acc, val.val)], after + 1)
        ELSE ParseFail

ParseValue(s, i0) ==
    LET i == SkipWs(s, i0)
        c == Char(s, i)
    IN  CASE c = "{" ->
               IF Char(s, SkipWs(s, i + 1)) = "}"
               THEN Parsed([t |-> "obj", v |-> <<>>], SkipWs(s, i + 1) + 1)
               ELSE ParseMembers(s, i + 1, <<>>)
          [] c = "[" ->
               IF Char(s, SkipWs(s, i + 1)) = "]"
               THEN Parsed([t |-> "arr", v |-> <<>>], SkipWs(s, i + 1) + 1)
               ELSE ParseItems(s, i + 1, <<>>)
          [] c = "\"" ->
               LET str == ParseStringBody(s, i + 1, "")
               IN  IF str.ok THEN Parsed([t |-> "str", v |-> str.val], str.next) ELSE ParseFail
          [] c = "-" \/ IsDigit(c) -> ParseNumber(s, i)
          [] StartsWithAt(s, i, "true") -> Parsed([t |-> "bool", v |-> TRUE], i + 4)
          [] StartsWithAt(s, i, "false") -> Parsed([t |-> "bool", v |-> FALSE], i + 5)
          [] StartsWithAt(s, i, "null") -> Parsed([t |-> "null"], i + 4)
          [] OTHER -> ParseFail

\* Ok(value) when the whole text is one JSON value, Err otherwise
serde_json_from_str(json) ==
    LET Whole(p) == IF p.ok /\ SkipWs(json, p.next) = Len(json) + 1 THEN Ok(p.val) ELSE Err("syntax")
    IN  Whole(ParseValue(json, 1))

\* Value::get(key) and Value::get(index)
JsonGet(value, key) ==
    IF value.t = "obj" /\ key \in DOMAIN value.v THEN Some(value.v[key]) ELSE NoneV
JsonGetIdx(value, idx) ==
    IF value.t = "arr" /\ idx + 1 \in DOMAIN value.v THEN Some(value.v[idx + 1]) ELSE NoneV

(***************************************************************************)
(* verification.rs: parse_payment_details                                   *)
(***************************************************************************)
OrElse(a, b) == IF a.some THEN a ELSE b
AndThenGet(opt, key) == IF opt.some THEN JsonGet(opt.val, key) ELSE NoneV

as_str(value) == IF value.t = "str" THEN Some(value.v) ELSE NoneV
as_i64(value) == IF value.t = "int" THEN Some(value.v) ELSE NoneV
as_f64(value) == IF value.t \in {"int", "float"} THEN Some(value) ELSE NoneV

\* Decimals d (written with one or two fraction digits, |d| < 10) for which the
\* IEEE-754 double product d * 100.0 falls just below the exact product, listed
\* by the digits of d without the point; for every other such d it is exact.
F64ProductBelow1 ==
    {23, 41, 46, 51, 82, 87, 92, 97}
F64ProductBelow2 ==
    {29, 57, 58, 113, 114, 115, 116, 201, 203, 205, 207, 226, 228, 230, 232, 251, 253,
     255, 402, 406, 410, 414, 427, 431, 435, 439, 452, 456, 460, 464, 477, 481, 485, 489,
     502, 506, 510, 803, 804, 812, 820, 828, 829, 837, 845, 853, 854, 862, 870, 878, 879,
     887, 895, 903, 904, 912, 920, 928, 929, 937, 945, 953, 954, 962, 970, 978, 979, 987,
     995}

\* (a * 100.0) as i64 for a JSON number a: the double product, truncated toward 0
F64Times100AsI64(a) ==
    IF a.t = "int" THEN a.v * 100
    ELSE LET exact == CASE a.scale = 1 -> a.mant * 10
                        [] a.scale = 2 -> a.mant
                        [] a.scale = 3 -> a.mant \div 10
                        [] OTHER -> a.mant \div 100
             below == \/ a.scale = 1 /\ a.mant \in F64ProductBelow1
                      \/ a.scale = 2 /\ a.mant \in F64ProductBelow2
             magnitude == IF below THEN exact - 1 ELSE exact
         IN  IF a.neg THEN 0 - magnitude ELSE magnitude


Details(transaction_id, amount_cents, beneficiary_iban, status) ==
    [transaction_id |-> transaction_id, amount_cents |-> amount_cents,
     beneficiary_iban |-> beneficiary_iban, status |-> status]

IsLowerHexChar(c) == c \in DOMAIN HexValOf /\ c \notin DOMAIN LowerOf
IsUpperChar(c) == c \in DOMAIN LowerOf
IsUpperOrDigit(c) == IsUpperChar(c) \/ IsDigit(c)

\* the least position in 1..Len(s) at which At holds, as an Option
FirstPos(s, At(_)) ==
    LET hits == {i \in 1..Len(s) : At(i)}
    IN  IF hits # {} THEN Some(SetMin(hits)) ELSE NoneV

\* regex [0-9a-f]{8}-[0-9a-f]{4}-[0-9a-f]{4}-[0-9a-f]{4}-[0-9a-f]{12}, leftmost match
extract_uuid(s) ==
    LET UuidAt(i) == /\ i + 35 <= Len(s)
                     /\ \A k \in 0..35 : IF k \in {8, 13, 18, 23}
                                         THEN Char(s, i + k) = "-"
                                         ELSE IsLowerHexChar(Char(s, i + k))
        m == FirstPos(s, UuidAt)
    IN  IF m.some THEN Some(SubSeq(s, m.val, m.val + 35)) ELSE NoneV

\* regex [A-Z]{2}[0-9]{2}[A-Z0-9]{10,28}, leftmost match, as long as possible
extract_iban(s) ==
    LET IbanAt(i) == /\ IsUpperChar(Char(s, i)) /\ IsUpperChar(Char(s, i + 1))
                     /\ IsDigit(Char(s, i + 2)) /\ IsDigit(Char(s, i + 3))
                     /\ \A k \in 4..13 : IsUpperOrDigit(Char(s, i + k))
        m == FirstPos(s, IbanAt)
        tail == IF m.some
                THEN CHOOSE n \in 10..28 :
                        /\ \A k \in 4..(3 + n) : IsUpperOrDigit(Char(s, m.val + k))
                        /\ (n = 28 \/ ~IsUpperOrDigit(Char(s, m.val + 4 + n)))
                ELSE 0
    IN  IF m.some THEN Some(SubSeq(s, m.val, m.val + 3 + tail)) ELSE NoneV

\* regex (\d+)\.?(\d{0,2}), leftmost match; a match with a '.' is parsed as f64
\* and multiplied by 100, one without as i64 (None when it overflows)
extract_amount(s) ==
    LET DigitAt(i) == IsDigit(Char(s, i))
        \* int are the digits matched by (\d+)
        Amount(int) ==
            LET dot == Char(s, int.next) = "."
                d1 == IsDigit(Char(s, int.next + 1))
                d2 == d1 /\ IsDigit(Char(s, int.next + 2))
            IN  IF int.cnt > MaxDigits THEN (IF dot THEN Some("bignum") ELSE NoneV)
                ELSE IF ~dot THEN Some(int.n)
                ELSE IF d2
                THEN Some(F64Times100AsI64(
                         [t |-> "float", neg |-> FALSE, scale |-> 2,
                          mant |-> int.n * 100 + 10 * DigitValOf[Char(s, int.next + 1)]
                                   + DigitValOf[Char(s, int.next + 2)]]))
                ELSE IF d1
                THEN Some(F64Times100AsI64(
                         [t |-> "float", neg |-> FALSE, scale |-> 1,
                          mant |-> int.n * 10 + DigitValOf[Char(s, int.next + 1)]]))
                ELSE Some(F64Times100AsI64([t |-> "int", v |-> int.n]))
        Match(m) == IF ~m.some THEN NoneV ELSE Amount(ParseDigits(s, m.val, 0, 0))
    IN  Match(FirstPos(s, DigitAt))

parse_payment_details(json) ==
    LET Fields(tx) ==
            LET id == AndThenGet(tx, "id")
                cents_field == OrElse(AndThenGet(tx, "amount_cents"),
                                      AndThenGet(tx, "local_amount_cents"))
                cents == IF cents_field.some THEN as_i64(cents_field.val) ELSE NoneV
                decimal_field == AndThenGet(tx, "amount")
                decimal == IF decimal_field.some THEN as_f64(decimal_field.val) ELSE NoneV
                amount == OrElse(cents, IF decimal.some THEN Some(F64Times100AsI64(decimal.val))
                                        ELSE NoneV)
                iban_field ==
                    OrElse(OrElse(OrElse(OrElse(
                        AndThenGet(AndThenGet(tx, "transfer"), "counterparty_account_number"),
                        AndThenGet(AndThenGet(tx, "counterparty"), "iban")),
                        AndThenGet(AndThenGet(tx, "counterparty"), "account_number")),
                        AndThenGet(AndThenGet(tx, "beneficiary"), "iban")),
                        AndThenGet(tx, "beneficiary_iban"))
                status_field == OrElse(AndThenGet(tx, "status"), AndThenGet(tx, "operation_type"))
            IN  Details(IF id.some THEN as_str(id.val) ELSE NoneV,
                        IF amount.some /\ amount.val = 0 THEN NoneV ELSE amount,
                        IF iban_field.some THEN as_str(iban_field.val) ELSE NoneV,
                        IF status_field.some THEN as_str(status_field.val) ELSE NoneV)
        First(transactions) == IF transactions.some THEN JsonGetIdx(transactions.val, 0) ELSE NoneV
        Structured(value) ==
            IF JsonGet(value, "_visible_content").some
            THEN Ok(Details(NoneV, NoneV, NoneV, NoneV))
            ELSE Ok(Fields(OrElse(OrElse(JsonGet(value, "transaction"),
                                         First(JsonGet(value, "transactions"))),
                                  JsonGet(value, "transfer"))))
        From(parsed) ==
            IF parsed.ok THEN Structured(parsed.val)
            ELSE Ok(Details(extract_uuid(json), extract_amount(json), extract_iban(json), NoneV))
    IN  From(serde_json_from_str(json))

(***************************************************************************)
(* verification.rs: verify_presentation                                     *)
(*                                                                          *)
(* The notarization primitive is opaque.  A presentation is the record of   *)
(* what the primitive yields for the submitted artifact:                    *)
(*   base64_ok    the request text decodes as base64;                       *)
(*   deserializes bincode accepts the bytes;                                *)
(*   verifies     Presentation::verify succeeds;                            *)
(*   server_name  Option<text>;   time  connection time;                    *)
(*   transcript   Option<[data, unauthed]>: the received bytes and the set  *)
(*                of positions (from 1) that were not disclosed.            *)
(***************************************************************************)
AttestationError(kind, msg) == [kind |-> kind, msg |-> msg]

\* PartialTranscript::set_unauthed followed by received_unsafe
set_unauthed(transcript, mark) ==
    Concat([i \in 1..Len(transcript.data) |->
               IF i \in transcript.unauthed THEN mark ELSE Char(transcript.data, i)])

\* the allow-list test, had it looked for the server name within an entry
ServerAllowed_reversed(server_name, allowed_servers) ==
    \E k \in 1..Len(allowed_servers) : StrContains(allowed_servers[k], server_name)

\* the allow-list test of verify_presentation
ServerAllowed(server_name, allowed_servers) ==
    \E k \in 1..Len(allowed_servers) : StrContains(server_name, allowed_servers[k])

\* what verify_presentation does once the server is allowed and the transcript is
\* present; steps are the stages run before
ExtractPayment(presentation, steps) ==
    LET Payment(response_body, details) ==
            IF ~details.ok
            THEN [res |-> Err(details.err),
                  steps |-> steps \o <<Stage("extract_json_body", TRUE),
                                       Stage("parse_payment_details", FALSE)>>]
            ELSE [res |-> Ok([server_name |-> presentation.server_name.val,
                              timestamp |-> presentation.time,
                              response_body |-> response_body,
                              transaction_id |-> details.val.transaction_id,
                              amount_cents |-> details.val.amount_cents,
                              beneficiary_iban |-> details.val.beneficiary_iban,
                              status |-> details.val.status]),
                  steps |-> steps \o Passed(<<"extract_json_body", "parse_payment_details">>)]
        Body(response_body) ==
            IF ~response_body.ok
            THEN [res |-> Err(response_body.err),
                  steps |-> steps \o <<Stage("extract_json_body", FALSE)>>]
            ELSE Payment(response_body.val, parse_payment_details(response_body.val))
    IN  Body(extract_json_body(set_unauthed(presentation.transcript.val, "X")))

\* verify_presentation, had it taken the transcript before testing the allow-list
verify_presentation_transcript_first(presentation, allowed_servers) ==
    IF ~presentation.deserializes
    THEN [res |-> Err(AttestationError("DeserializationError", "Failed to deserialize presentation")),
          steps |-> <<Stage("deserialize", FALSE)>>]
    ELSE IF ~presentation.verifies
    THEN [res |-> Err(AttestationError("VerificationFailed", "Presentation verification failed")),
          steps |-> Passed(<<"deserialize">>) \o <<Stage("verify", FALSE)>>]
    ELSE IF ~presentation.server_name.some
    THEN [res |-> Err(AttestationError("ServerNotFound", "")),
          steps |-> Passed(<<"deserialize", "verify">>) \o <<Stage("server_name", FALSE)>>]
    ELSE IF ~presentation.transcript.some
    THEN [res |-> Err(AttestationError("TranscriptNotFound", "")),
          steps |-> Passed(<<"deserialize", "verify", "server_name">>)
                    \o <<Stage("transcript", FALSE)>>]
    ELSE IF ~ServerAllowed(presentation.server_name.val, allowed_servers)
    THEN [res |-> Err(AttestationError("UnexpectedServer", presentation.server_name.val)),
          steps |-> Passed(<<"deserialize", "verify", "server_name", "transcript">>)
                    \o <<Stage("allowed_servers", FALSE)>>]
    ELSE ExtractPayment(presentation,
                        Passed(<<"deserialize", "verify", "server_name", "transcript",
                                 "allowed_servers">>))

\* [res |-> Ok(VerifiedPayment) or Err(AttestationError), steps |-> stages run]
verify_presentation(presentation, allowed_servers) ==
    IF ~presentation.deserializes
    THEN [res |-> Err(AttestationError("DeserializationError", "Failed to deserialize presentation")),
          steps |-> <<Stage("deserialize", FALSE)>>]
    ELSE IF ~presentation.verifies
    THEN [res |-> Err(AttestationError("VerificationFailed", "Presentation verification failed")),
          steps |-> Passed(<<"deserialize">>) \o <<Stage("verify", FALSE)>>]
    ELSE IF ~presentation.server_name.some
    THEN [res |-> Err(AttestationError("ServerNotFound", "")),
          steps |-> Passed(<<"deserialize", "verify">>) \o <<Stage("server_name", FALSE)>>]
    ELSE IF ~ServerAllowed(presentation.server_name.val, allowed_servers)
    THEN [res |-> Err(AttestationError("UnexpectedServer", presentation.server_name.val)),
          steps |-> Passed(<<"deserialize", "verify", "server_name">>)
                    \o <<Stage("allowed_servers", FALSE)>>]
    ELSE IF ~presentation.transcript.some
    THEN [res |-> Err(AttestationError("TranscriptNotFound", "")),
          steps |-> Passed(<<"deserialize", "verify", "server_name", "allowed_servers">>)
                    \o <<Stage("transcript", FALSE)>>]
    ELSE ExtractPayment(presentation,
                        Passed(<<"deserialize", "verify", "server_name", "allowed_servers",
                                 "transcript">>))

(***************************************************************************)
(* eip712.rs                                                                *)
(*                                                                          *)
(* keccak256 is an ideal hash: the record of its preimage, so two hashes     *)
(* are equal exactly when their preimages are.  A preimage built from        *)
(* fixed-width parts is the sequence of the parts.  A u64 is its 8           *)
(* big-endian bytes.                                                         *)
(***************************************************************************)
keccak256(preimage) == [keccak |-> preimage]

\* the bytes of a string handed to a hash or a byte buffer: one opaque chunk
as_bytes(s) == <<s>>

\* v as u64 for an i64 v (two's complement)
I64AsU64(v) ==
    IF v >= 0 THEN BeBytes(v, 8)
    ELSE LET m == BeBytes((0 - v) - 1, 8) IN [i \in 1..8 |-> 255 - m[i]]

\* U256::from(u64).to_be_bytes::<32>()
U256FromU64(u) == Zeros(24) \o u


AttestationDomainNew(chain_id, verifying_contract) ==
    [name |-> "WisePaymentVerifier", version |-> "1",
     chain_id |-> chain_id, verifying_contract |-> verifying_contract]

domain_separator(domain) ==
    LET type_hash == keccak256(
            "EIP712Domain(string name,string version,uint256 chainId,address verifyingContract)")
        name_hash == keccak256(domain.name)
        version_hash == keccak256(domain.version)
        addr_padded == Zeros(12) \o domain.verifying_contract
    IN  keccak256(<<type_hash, name_hash, version_hash,
                    U256FromU64(BeBytes(domain.chain_id, 8)), addr_padded>>)

data_hash(data) == keccak256(data.data)

\* struct_hash, had it encoded the timestamp before the amount
struct_hash_swapped(data) ==
    LET type_hash == keccak256(
            "PaymentAttestation(bytes32 intentHash,uint256 amount,uint256 timestamp,string paymentId,bytes32 dataHash)")
        payment_id_hash == keccak256(data.payment_id)
    IN  keccak256(<<type_hash, data.intent_hash, U256FromU64(BeBytes(data.timestamp, 8)),
                    U256FromU64(data.amount), payment_id_hash, data_hash(data)>>)

struct_hash(data) ==
    LET type_hash == keccak256(
            "PaymentAttestation(bytes32 intentHash,uint256 amount,uint256 timestamp,string paymentId,bytes32 dataHash)")
        payment_id_hash == keccak256(data.payment_id)
    IN  keccak256(<<type_hash, data.intent_hash, U256FromU64(data.amount),
                    U256FromU64(BeBytes(data.timestamp, 8)), payment_id_hash, data_hash(data)>>)

\* sign_attestation, had it stored the recovery id as it is
sign_attestation_raw_v(domain, data, signing_key, ecdsa) ==
    LET message == <<25, 1, domain_separator(domain), struct_hash(data)>>
        digest == keccak256(message)
        sig_bytes == ecdsa.r \o ecdsa.s \o <<ecdsa.recovery_id>>
    IN  IF ~ecdsa.ok THEN Err(AttestationError("SigningError", "Failed to sign"))
        ELSE Ok([signature |-> sig_bytes, digest |-> digest])

\* ecdsa is what SigningKey::sign_prehash_recoverable yields for the digest:
\* [ok |-> FALSE] or [ok |-> TRUE, r |-> the 32 big-endian bytes of the scalar r,
\* s |-> those of s, recovery_id |-> 0 or 1]
sign_attestation(domain, data, signing_key, ecdsa) ==
    LET message == <<25, 1, domain_separator(domain), struct_hash(data)>>
        digest == keccak256(message)
        sig_bytes == ecdsa.r \o ecdsa.s \o <<ecdsa.recovery_id + 27>>
    IN  IF ~ecdsa.ok THEN Err(AttestationError("SigningError", "Failed to sign"))
        ELSE Ok([signature |-> sig_bytes, digest |-> digest])

(***************************************************************************)
(* attestation.rs                                                           *)
(***************************************************************************)
IsWhitespace(c) == c \in {" ", "\t", "\n", "\r"}

StripWhitespace(s) ==
    Concat([i \in 1..Len(s) |-> IF IsWhitespace(Char(s, i)) THEN "" ELSE Char(s, i)])

normalize_iban(iban) == to_uppercase(StripWhitespace(iban))

\* validate_payment, had it compared the IBANs as they were given
validate_payment_exact_iban(verified, request) ==
    IF request.expected_amount_cents = 0 /\ request.expected_beneficiary_iban = ""
    THEN Ok("unit")
    ELSE IF request.expected_amount_cents > 0 /\ ~verified.amount_cents.some
    THEN Err(AttestationError("MissingField", "amount_cents"))
    ELSE IF request.expected_amount_cents > 0
            /\ verified.amount_cents.val # request.expected_amount_cents
    THEN Err(AttestationError("InvalidPaymentData", "Amount mismatch"))
    ELSE IF request.expected_beneficiary_iban # "" /\ ~verified.beneficiary_iban.some
    THEN Err(AttestationError("MissingField", "beneficiary_iban"))
    ELSE IF request.expected_beneficiary_iban # ""
            /\ request.expected_beneficiary_iban # verified.beneficiary_iban.val
    THEN Err(AttestationError("InvalidPaymentData", "IBAN mismatch"))
    ELSE Ok("unit")

validate_payment(verified, request) ==
    IF request.expected_amount_cents = 0 /\ request.expected_beneficiary_iban = ""
    THEN Ok("unit")
    ELSE IF request.expected_amount_cents > 0 /\ ~verified.amount_cents.some
    THEN Err(AttestationError("MissingField", "amount_cents"))
    ELSE IF request.expected_amount_cents > 0
            /\ verified.amount_cents.val # request.expected_amount_cents
    THEN Err(AttestationError("InvalidPaymentData", "Amount mismatch"))
    ELSE IF request.expected_beneficiary_iban # "" /\ ~verified.beneficiary_iban.some
    THEN Err(AttestationError("MissingField", "beneficiary_iban"))
    ELSE IF request.expected_beneficiary_iban # ""
            /\ normalize_iban(request.expected_beneficiary_iban)
                   # normalize_iban(verified.beneficiary_iban.val)
    THEN Err(AttestationError("InvalidPaymentData", "IBAN mismatch"))
    ELSE Ok("unit")

\* decode_bytes32 of attestation.rs, had it accepted any number of bytes
decode_bytes32_any_length(hex_str) ==
    LET bytes == hex_decode(trim_start_matches(hex_str, "0x"))
    IN  IF ~bytes.ok THEN Err(AttestationError("DeserializationError", "Invalid hex"))
        ELSE Ok(bytes.val)

\* decode_bytes32 of attestation.rs
decode_bytes32(hex_str) ==
    LET bytes == hex_decode(trim_start_matches(hex_str, "0x"))
    IN  IF ~bytes.ok THEN Err(AttestationError("DeserializationError", "Invalid hex"))
        ELSE IF Len(bytes.val) # 32 THEN Err(AttestationError("DeserializationError", "Expected 32 bytes"))
        ELSE Ok(bytes.val)

UnwrapOr(opt, default) == IF opt.some THEN opt.val ELSE default

\* create_attestation signing whatever validate_payment said
create_attestation_unchecked(request, config, ecdsa) ==
    LET Signed(verified, attestation_data, signed, steps) ==
            IF ~signed.ok
            THEN [res |-> signed, steps |-> steps \o <<Stage("sign_attestation", FALSE)>>]
            ELSE [res |-> Ok([success |-> TRUE,
                              signature |-> "0x" \o hex_encode(signed.val.signature),
                              digest |-> signed.val.digest,
                              data_hash |-> data_hash(attestation_data),
                              payment |-> [transaction_id |-> verified.transaction_id,
                                           amount_cents |-> UnwrapOr(verified.amount_cents, 0),
                                           beneficiary_iban |-> UnwrapOr(verified.beneficiary_iban, ""),
                                           timestamp |-> verified.timestamp,
                                           server |-> verified.server_name]]),
                  steps |-> steps \o <<Stage("sign_attestation", TRUE)>>]
        Sign(verified, attestation_data, steps) ==
            Signed(verified, attestation_data,
                   sign_attestation(AttestationDomainNew(config.chain_id, config.verifier_contract),
                                    attestation_data, config.signing_key, ecdsa),
                   steps)
        Decoded(verified, intent_hash, steps) ==
            IF ~intent_hash.ok
            THEN [res |-> intent_hash, steps |-> steps \o <<Stage("decode_bytes32", FALSE)>>]
            ELSE Sign(verified,
                      [intent_hash |-> intent_hash.val,
                       amount |-> I64AsU64(UnwrapOr(verified.amount_cents, 0)),
                       timestamp |-> verified.timestamp,
                       payment_id |-> UnwrapOr(verified.transaction_id, ""),
                       data |-> as_bytes(verified.response_body)],
                      steps \o <<Stage("decode_bytes32", TRUE)>>)
        Checked(verified, checked, steps) ==
            Decoded(verified, decode_bytes32(request.intent_hash),
                    steps \o <<Stage("validate_payment", checked.ok)>>)
        Verified(verification) ==
            IF ~verification.res.ok
            THEN [res |-> verification.res, steps |-> <<Stage("base64", TRUE)>> \o verification.steps]
            ELSE Checked(verification.res.val, validate_payment(verification.res.val, request),
                         <<Stage("base64", TRUE)>> \o verification.steps)
    IN  IF ~request.presentation.base64_ok
        THEN [res |-> Err(AttestationError("DeserializationError", "Invalid base64")),
              steps |-> <<Stage("base64", FALSE)>>]
        ELSE Verified(verify_presentation(request.presentation, config.allowed_servers))

\* [res |-> Ok(AttestationResponse) or Err(AttestationError), steps |-> stages run]
create_attestation(request, config, ecdsa) ==
    LET Signed(verified, attestation_data, signed, steps) ==
            IF ~signed.ok
            THEN [res |-> signed, steps |-> steps \o <<Stage("sign_attestation", FALSE)>>]
            ELSE [res |-> Ok([success |-> TRUE,
                              signature |-> "0x" \o hex_encode(signed.val.signature),
                              digest |-> signed.val.digest,
                              data_hash |-> data_hash(attestation_data),
                              payment |-> [transaction_id |-> verified.transaction_id,
                                           amount_cents |-> UnwrapOr(verified.amount_cents, 0),
                                           beneficiary_iban |-> UnwrapOr(verified.beneficiary_iban, ""),
                                           timestamp |-> verified.timestamp,
                                           server |-> verified.server_name]]),
                  steps |-> steps \o <<Stage("sign_attestation", TRUE)>>]
        Sign(verified, attestation_data, steps) ==
            Signed(verified, attestation_data,
                   sign_attestation(AttestationDomainNew(config.chain_id, config.verifier_contract),
                                    attestation_data, config.signing_key, ecdsa),
                   steps)
        Decoded(verified, intent_hash, steps) ==
            IF ~intent_hash.ok
            THEN [res |-> intent_hash, steps |-> steps \o <<Stage("decode_bytes32", FALSE)>>]
            ELSE Sign(verified,
                      [intent_hash |-> intent_hash.val,
                       amount |-> I64AsU64(UnwrapOr(verified.amount_cents, 0)),
                       timestamp |-> verified.timestamp,
                       payment_id |-> UnwrapOr(verified.transaction_id, ""),
                       data |-> as_bytes(verified.response_body)],
                      steps \o <<Stage("decode_bytes32", TRUE)>>)
        Checked(verified, checked, steps) ==
            IF ~checked.ok
            THEN [res |-> checked, steps |-> steps \o <<Stage("validate_payment", FALSE)>>]
            ELSE Decoded(verified, decode_bytes32(request.intent_hash),
                         steps \o <<Stage("validate_payment", TRUE)>>)
        Verified(verification) ==
            IF ~verification.res.ok
            THEN [res |-> verification.res, steps |-> <<Stage("base64", TRUE)>> \o verification.steps]
            ELSE Checked(verification.res.val, validate_payment(verification.res.val, request),
                         <<Stage("base64", TRUE)>> \o verification.steps)
    IN  IF ~request.presentation.base64_ok
        THEN [res |-> Err(AttestationError("DeserializationError", "Invalid base64")),
              steps |-> <<Stage("base64", FALSE)>>]
        ELSE Verified(verify_presentation(request.presentation, config.allowed_servers))

\* AttestationError::into_response: the HTTP status of an error
ErrorStatus(e) == IF e.kind \in {"SigningError", "Internal"} THEN 500 ELSE 400

(***************************************************************************)
(* Environment parsing (auth.rs SolverAuth::from_env, config.rs             *)
(* Config::from_env)                                                        *)
(***************************************************************************)
\* str::split on a one-character separator: at least one part, possibly empty
RECURSIVE SplitFrom(_, _, _, _)
SplitFrom(s, sep, i, current) ==
    IF i > Len(s) THEN <<current>>
    ELSE IF Char(s, i) = sep THEN <<current>> \o SplitFrom(s, sep, i + 1, "")
    ELSE SplitFrom(s, sep, i + 1, current \o Char(s, i))

Split(s, sep) == SplitFrom(s, sep, 1, "")

RECURSIVE TrimStart(_)
TrimStart(s) == IF s # "" /\ IsWhitespace(Head(s)) THEN TrimStart(Tail(s)) ELSE s
RECURSIVE TrimEnd(_)
TrimEnd(s) ==
    IF s # "" /\ IsWhitespace(Char(s, Len(s))) THEN TrimEnd(SubSeq(s, 1, Len(s) - 1)) ELSE s
Trim(s) == TrimEnd(TrimStart(s))

\* the api_keys map of "key1:0xAddr1,key2:0xAddr2"; a later pair replaces an
\* earlier one with the same key
RECURSIVE ParseApiKeys(_, _)
ParseApiKeys(pairs, api_keys) ==
    IF pairs = <<>> THEN api_keys
    ELSE LET pair == Trim(Head(pairs))
             parts == Split(pair, ":")
         IN  IF pair # "" /\ Len(parts) = 2
             THEN ParseApiKeys(Tail(pairs), (Trim(parts[1]) :> to_lowercase(Trim(parts[2]))) @@ api_keys)
             ELSE ParseApiKeys(Tail(pairs), api_keys)

DefaultRateLimit == 100

\* env.SOLVER_API_KEYS is the text of the variable ("" when unset),
\* env.RATE_LIMIT_PER_MINUTE an Option of the parsed number
SolverAuthFromEnv(env) ==
    [api_keys |-> ParseApiKeys(Split(env.SOLVER_API_KEYS, ","), <<>>),
     rate_limit |-> UnwrapOr(env.RATE_LIMIT_PER_MINUTE, DefaultRateLimit),
     rate_counters |-> <<>>]

DefaultAllowedServers == "thirdparty.qonto.com"
DefaultChainId == 84532

ConfigFromEnv(env) ==
    LET parts == Split(UnwrapOr(env.ALLOWED_SERVERS, DefaultAllowedServers), ",")
    IN  [signing_key |-> "WITNESS_PRIVATE_KEY",
         chain_id |-> DefaultChainId,
         verifier_contract |-> Zeros(20),
         allowed_servers |-> [k \in 1..Len(parts) |-> Trim(parts[k])]]

(***************************************************************************)
(* auth.rs: SolverAuth                                                      *)
(*                                                                          *)
(* Instants are counted in ticks of 1/TicksPerSec second.                   *)
(***************************************************************************)
TicksPerSec == 2
WindowSecs == 60
Window == WindowSecs * TicksPerSec

\* Instant::duration_since and Duration::saturating_sub: zero when negative
duration_since(later, earlier) == IF later >= earlier THEN later - earlier ELSE 0

is_enabled(auth) == DOMAIN auth.api_keys # {}

validate_api_key(auth, api_key) ==
    IF api_key \in DOMAIN auth.api_keys THEN Some(auth.api_keys[api_key]) ELSE NoneV

\* check_rate_limit, had retry_after been the whole seconds that remain
check_rate_limit_short_retry(auth, solver_address, instant) ==
    LET counters == auth.rate_counters
        inserted == IF solver_address \in DOMAIN counters THEN counters[solver_address]
                    ELSE [count |-> 0, window_start |-> instant]
        entry == IF duration_since(instant, inserted.window_start) >= Window
                 THEN [count |-> 0, window_start |-> instant]
                 ELSE inserted
        elapsed == duration_since(instant, entry.window_start)
        remaining == duration_since(Window, elapsed)
        retry_after == remaining \div TicksPerSec
    IN  IF entry.count >= auth.rate_limit
        THEN [res |-> Err(retry_after), rate_counters |-> (solver_address :> entry) @@ counters]
        ELSE [res |-> Ok("unit"),
              rate_counters |-> (solver_address :> [entry EXCEPT !.count = @ + 1]) @@ counters]

\* check_rate_limit, had a refusal restarted the window
check_rate_limit_restarting(auth, solver_address, instant) ==
    LET counters == auth.rate_counters
        inserted == IF solver_address \in DOMAIN counters THEN counters[solver_address]
                    ELSE [count |-> 0, window_start |-> instant]
        entry == IF duration_since(instant, inserted.window_start) >= Window
                 THEN [count |-> 0, window_start |-> instant]
                 ELSE inserted
        elapsed == duration_since(instant, entry.window_start)
        remaining == duration_since(Window, elapsed)
        retry_after == (remaining \div TicksPerSec) + 1
    IN  IF entry.count >= auth.rate_limit
        THEN [res |-> Err(retry_after),
              rate_counters |-> (solver_address :> [entry EXCEPT !.window_start = instant]) @@ counters]
        ELSE [res |-> Ok("unit"),
              rate_counters |-> (solver_address :> [entry EXCEPT !.count = @ + 1]) @@ counters]

\* check_rate_limit, had it refused only above the limit
check_rate_limit_inclusive(auth, solver_address, instant) ==
    LET counters == auth.rate_counters
        inserted == IF solver_address \in DOMAIN counters THEN counters[solver_address]
                    ELSE [count |-> 0, window_start |-> instant]
        entry == IF duration_since(instant, inserted.window_start) >= Window
                 THEN [count |-> 0, window_start |-> instant]
                 ELSE inserted
        elapsed == duration_since(instant, entry.window_start)
        remaining == duration_since(Window, elapsed)
        retry_after == (remaining \div TicksPerSec) + 1
    IN  IF entry.count > auth.rate_limit
        THEN [res |-> Err(retry_after), rate_counters |-> (solver_address :> entry) @@ counters]
        ELSE [res |-> Ok("unit"),
              rate_counters |-> (solver_address :> [entry EXCEPT !.count = @ + 1]) @@ counters]

\* [res |-> Ok or Err(retry_after), rate_counters |-> the map afterwards]
check_rate_limit(auth, solver_address, instant) ==
    LET counters == auth.rate_counters
        inserted == IF solver_address \in DOMAIN counters THEN counters[solver_address]
                    ELSE [count |-> 0, window_start |-> instant]
        entry == IF duration_since(instant, inserted.window_start) >= Window
                 THEN [count |-> 0, window_start |-> instant]
                 ELSE inserted
        elapsed == duration_since(instant, entry.window_start)
        remaining == duration_since(Window, elapsed)
        retry_after == (remaining \div TicksPerSec) + 1
    IN  IF entry.count >= auth.rate_limit
        THEN [res |-> Err(retry_after), rate_counters |-> (solver_address :> entry) @@ counters]
        ELSE [res |-> Ok("unit"),
              rate_counters |-> (solver_address :> [entry EXCEPT !.count = @ + 1]) @@ counters]

(***************************************************************************)
(* api.rs: the attest handler, cut at the suspension points of              *)
(* validate_intent.  Each piece yields the handler's next position:         *)
(*   pc "get_intent" / "is_solver_authorized"  awaiting that eth_call,      *)
(*   pc "done"  responded (or panicked: status 0, no response is sent).     *)
(***************************************************************************)
PlaceholderSolver == "0x0000000000000000000000000000000000000000"

\* decode_bytes32 of api.rs
api_decode_bytes32(hex_str) ==
    LET bytes == hex_decode(trim_start_matches(hex_str, "0x"))
    IN  IF ~bytes.ok THEN Err("Invalid hex")
        ELSE IF Len(bytes.val) # 32 THEN Err("Expected 32 bytes")
        ELSE Ok(bytes.val)

AuditLogEntry(solver_address, intent_hash, payment_id, amount_cents, result) ==
    [solver_address |-> solver_address, intent_hash |-> intent_hash, payment_id |-> payment_id,
     amount_cents |-> amount_cents, result |-> result]

Response(status, body) == [status |-> status, body |-> body]
ErrorBody(error) == [success |-> FALSE, error |-> error]

\* Authenticate, had an unknown key fallen back to the placeholder identity
Authenticate_fallback(auth, api_key) ==
    IF ~is_enabled(auth) THEN Ok(PlaceholderSolver)
    ELSE IF ~api_key.some THEN Err("Missing X-Solver-API-Key header")
    ELSE LET addr == validate_api_key(auth, api_key.val)
         IN  IF addr.some THEN Ok(addr.val) ELSE Ok(PlaceholderSolver)

\* the solver identity of a request: Ok(address) or Err(message of the 401)
Authenticate(auth, api_key) ==
    IF ~is_enabled(auth) THEN Ok(PlaceholderSolver)
    ELSE IF ~api_key.some THEN Err("Missing X-Solver-API-Key header")
    ELSE LET addr == validate_api_key(auth, api_key.val)
         IN  IF addr.some THEN Ok(addr.val) ELSE Err("Invalid API key")

Responded(response, steps, audit_entries) ==
    [pc |-> "done", response |-> Some(response), steps |-> steps, calls |-> <<>>,
     intent |-> NoneV, audit |-> audit_entries]

Awaiting(position, calldata, intent, steps) ==
    [pc |-> position, response |-> NoneV, steps |-> steps,
     calls |-> <<"0x" \o hex_encode(calldata)>>, intent |-> intent, audit |-> <<>>]

\* attest from the point where create_attestation returned created
attest_create(created, request, solver_address) ==
    LET response == created.res.val
        e == created.res.err
    IN  IF created.res.ok
        THEN Responded(Response(200, response), created.steps,
                       <<AuditLogEntry(solver_address, request.intent_hash,
                                       response.payment.transaction_id,
                                       response.payment.amount_cents, [kind |-> "Success"])>>)
        ELSE Responded(Response(ErrorStatus(e), [error |-> e, code |-> ErrorStatus(e)]),
                       created.steps,
                       <<AuditLogEntry(solver_address, request.intent_hash, NoneV,
                                       request.expected_amount_cents,
                                       [kind |-> "Error", message |-> e])>>)

\* the 400 answer of attest to a failed intent validation
attest_rejected(request, solver_address, reason, steps) ==
    Responded(Response(400, ErrorBody(reason)), steps,
              <<AuditLogEntry(solver_address, request.intent_hash, NoneV,
                              request.expected_amount_cents,
                              [kind |-> "Rejected", reason |-> reason])>>)

Panicked(steps) == Responded(Response(0, "panic"), steps, <<>>)

\* attest from "Validate intent on-chain" up to the first eth_call, or to its
\* end when no chain client is configured; created is what create_attestation
\* returns for the request
attest_validate(request, solver_address, chain, created) ==
    LET intent_bytes == api_decode_bytes32(request.intent_hash)
        begun == validate_intent_begin(intent_bytes.val)
    IN  IF ~chain.some THEN attest_create(created, request, solver_address)
        ELSE IF ~intent_bytes.ok
        THEN attest_rejected(request, solver_address, "Invalid intent hash: " \o intent_bytes.err,
                             <<Stage("intent_hash", FALSE)>>)
        ELSE Awaiting("get_intent", begun.calldata, NoneV, <<Stage("intent_hash", TRUE)>>)

\* attest_begin, had it gone on after a refusal of the rate limiter
attest_begin_unlimited(api_key, request, auth, chain, instant, created) ==
    LET who == Authenticate(auth, api_key)
        limited == check_rate_limit(auth, who.val, instant)
        counted == [auth EXCEPT !.rate_counters = limited.rate_counters]
        rest == attest_validate(request, who.val, chain, created)
    IN  IF ~who.ok
        THEN [auth |-> auth, solver_address |-> NoneV,
              next |-> Responded(Response(401, ErrorBody(who.err)),
                                 <<Stage("authenticate", FALSE)>>, <<>>)]
        ELSE [auth |-> counted, solver_address |-> Some(who.val),
              next |-> [rest EXCEPT !.steps = <<Stage("authenticate", TRUE),
                                                Stage("check_rate_limit", limited.res.ok)>> \o @]]

\* attest from its entry: [auth |-> the SolverAuth afterwards,
\* solver_address |-> Option, next |-> the handler's next position]
attest_begin(api_key, request, auth, chain, instant, created) ==
    LET who == Authenticate(auth, api_key)
        limited == check_rate_limit(auth, who.val, instant)
        counted == [auth EXCEPT !.rate_counters = limited.rate_counters]
        rest == attest_validate(request, who.val, chain, created)
    IN  IF ~who.ok
        THEN [auth |-> auth, solver_address |-> NoneV,
              next |-> Responded(Response(401, ErrorBody(who.err)),
                                 <<Stage("authenticate", FALSE)>>, <<>>)]
        ELSE IF ~limited.res.ok
        THEN [auth |-> counted, solver_address |-> Some(who.val),
              next |-> Responded(Response(429, [success |-> FALSE, error |-> "Rate limit exceeded",
                                                retry_after |-> limited.res.err]),
                                 <<Stage("authenticate", TRUE), Stage("check_rate_limit", FALSE)>>,
                                 <<>>)]
        ELSE [auth |-> counted, solver_address |-> Some(who.val),
              next |-> [rest EXCEPT !.steps = Passed(<<"authenticate", "check_rate_limit">>) \o @]]

\* attest from the point where get_intent returned got
attest_on_intent(got, request, solver_address) ==
    LET Answer(step) ==
            CASE step.kind = "return" ->
                   attest_rejected(request, solver_address, step.res.err, step.steps)
              [] step.kind = "panic" -> Panicked(step.steps)
              [] step.kind = "call" ->
                   Awaiting("is_solver_authorized", step.calldata, step.intent, step.steps)
    IN  Answer(validate_intent_on_intent(got, solver_address))

\* attest from the point where is_solver_authorized returned is_authorized
attest_on_authorized(is_authorized, request, solver_address, intent, created) ==
    LET Create(steps, answered) == [answered EXCEPT !.steps = steps \o @]
        Answer(step) ==
            IF step.kind = "panic" THEN Panicked(step.steps)
            ELSE IF ~step.res.ok
            THEN attest_rejected(request, solver_address, step.res.err, step.steps)
            ELSE Create(step.steps, attest_create(created, request, solver_address))
    IN  Answer(validate_intent_on_authorized(is_authorized, intent, solver_address,
                                             request.expected_amount_cents))

(***************************************************************************)
(* Sample inputs                                                            *)
(***************************************************************************)
DepositorAddr == Rep(17, 20)
SolverA == Rep(171, 20)

\* SOLVER_API_KEYS values: unset; one key with a mixed-case address; one key whose
\* address text is not hex of whole bytes; one key whose address has 2 bytes
SolverAEnv == "0xABabABabABabABabABabABabABabABabABabABab"
\* X-Solver-API-Key header values
ApiKeyHeaders == {NoneV, Some("k1"), Some("nokey")}

\* ALLOWED_SERVERS values: unset (the default), two entries, set to the empty text
MaxRateLimit == 2

\* one word of an eth_call result
WordOfInt(v) == BeBytes(v, 32)
WordOfAddress(addr) == Zeros(12) \o addr

\* the getIntent result of tests/fiat_amount_validation_e2e.rs::build_intent_response
BuildIntentBytes(depositor_word, solver_word, usdc_word, fiat_word, status_word) ==
    WordOfInt(32) \o depositor_word \o usdc_word \o WordOfInt(1) \o status_word
    \o WordOfInt(1700000000) \o WordOfInt(1700000100) \o solver_word \o WordOfInt(0) \o fiat_word

HexResult(bytes) == Reply("ok", TRUE, Some("0x" \o hex_encode(bytes)), NoneV)

IntentReply(depositor, solver, usdc, fiat, status) ==
    HexResult(BuildIntentBytes(WordOfAddress(depositor), WordOfAddress(solver),
                               WordOfInt(usdc), WordOfInt(fiat), WordOfInt(status)))

GoodIntentBytes == BuildIntentBytes(WordOfAddress(DepositorAddr), WordOfAddress(AddressZERO),
                                    WordOfInt(100), WordOfInt(100), WordOfInt(2))

\* transport and envelope failures, and results that are no intent
FailedReplies ==
    {Reply("unreachable", FALSE, NoneV, NoneV),
     Reply("ok", FALSE, NoneV, NoneV),
     Reply("ok", TRUE, NoneV, Some("execution reverted")),
     Reply("ok", TRUE, NoneV, NoneV),
     Reply("ok", TRUE, Some("0x"), NoneV),
     Reply("ok", TRUE, Some("0xzz"), NoneV),
     Reply("ok", TRUE, Some("0x123"), NoneV)}

IntentReplies ==
    FailedReplies
    \cup {IntentReply(DepositorAddr, AddressZERO, 100, fiat, 2) : fiat \in {0, 100, 250}}
    \cup {IntentReply(DepositorAddr, sv, 100, 100, 2) : sv \in {SolverA, Rep(34, 20)}}
    \cup {IntentReply(DepositorAddr, AddressZERO, 100, 100, st) : st \in {0, 1, 3, 4, 5, 6, 99, 258}}
    \cup {IntentReply(AddressZERO, AddressZERO, 100, 100, 2),
          \* the all-zero struct of an intent that was never created
          IntentReply(AddressZERO, AddressZERO, 0, 0, 0),
          \* assigned to another solver and already fulfilled
          IntentReply(DepositorAddr, Rep(34, 20), 100, 100, 3),
          \* the depositor word is non-zero above its low 20 bytes only
          HexResult(BuildIntentBytes(<<1>> \o Zeros(31), WordOfAddress(AddressZERO),
                                     WordOfInt(100), WordOfInt(100), WordOfInt(2))),
          \* one byte short of the minimum, and exactly the minimum
          HexResult(SubSeq(GoodIntentBytes, 1, IntentMinLen - 1)),
          HexResult(SubSeq(GoodIntentBytes, 1, IntentMinLen)),
          \* a usdcAmount of 2^128
          HexResult(BuildIntentBytes(WordOfAddress(DepositorAddr), WordOfAddress(AddressZERO),
                                     Zeros(15) \o <<1>> \o Zeros(16), WordOfInt(100), WordOfInt(2))),
          \* no 0x prefix
          Reply("ok", TRUE, Some(hex_encode(GoodIntentBytes)), NoneV)}

AuthorizedReplies ==
    FailedReplies
    \cup {HexResult(WordOfInt(1)), HexResult(WordOfInt(0)), HexResult(WordOfInt(2)),
          HexResult(WordOfInt(256)),
          HexResult(SubSeq(WordOfInt(1), 2, 32)),
          HexResult(WordOfInt(0) \o WordOfInt(1)),
          HexResult(WordOfInt(1) \o WordOfInt(0))}

\* what the ECDSA library does with a digest: it fails, or yields a signature
\* (one whose r has a leading zero byte) and the recovery id 0 or 1
EcdsaOutcomes ==
    {[ok |-> FALSE, r |-> Zeros(32), s |-> Zeros(32), recovery_id |-> 0],
     [ok |-> TRUE, r |-> Rep(17, 32), s |-> Rep(34, 32), recovery_id |-> 0],
     [ok |-> TRUE, r |-> <<0>> \o Rep(17, 31), s |-> Rep(34, 32), recovery_id |-> 1]}


HttpOk == "HTTP/1.1 200 OK\r\nContent-Type: application/json\r\n\r\n"
Iban1 == "DE89370400440532013000"
TxJson ==
    "{\"transaction\":{\"id\":\"tx-123\",\"amount_cents\":100,\"status\":\"completed\","
    \o "\"counterparty\":{\"iban\":\"" \o Iban1 \o "\"}}}"


Presentation(base64_ok, deserializes, verifies, server_name, transcript) ==
    [base64_ok |-> base64_ok, deserializes |-> deserializes, verifies |-> verifies,
     server_name |-> server_name, time |-> 1700000000, transcript |-> transcript]

\* a verified presentation of server_name whose received bytes are data, the
\* positions in unauthed undisclosed
Disclosed(server_name, data, unauthed) ==
    Presentation(TRUE, TRUE, TRUE, Some(server_name), Some([data |-> data, unauthed |-> unauthed]))

GoodPresentation == Disclosed(DefaultAllowedServers, HttpOk \o TxJson, {})

\* the positions of data that hold the character '_'
Underscores(data) == {i \in 1..Len(data) : Char(data, i) = "_"}

\* server identities: containing an allowed entry, contained in one, unrelated, empty
ServerPresentations ==
    {Disclosed(name, HttpOk \o TxJson, {}) :
        name \in {"evil.example", "thirdparty.qonto.com.evil.example", "qonto.com", "qonto", ""}}

\* bodies: no header separator; LF-only separator; undisclosed text without braces;
\* nothing disclosed; braces around partly undisclosed text; other JSON shapes
BodyPresentations ==
    {Disclosed(DefaultAllowedServers, TxJson, {}),
     Disclosed(DefaultAllowedServers, "HTTP/1.1 200 OK\n\n" \o TxJson, {}),
     LET data == HttpOk \o "_______tx-123______100___" IN Disclosed(DefaultAllowedServers, data, Underscores(data)),
     LET data == HttpOk \o "____________" IN Disclosed(DefaultAllowedServers, data, Underscores(data)),
     LET data == HttpOk \o "{__" \o "019b2249-50b2-7778-8b9e-0123456789ab" \o "__" \o Iban1 \o "__}"
     IN  Disclosed(DefaultAllowedServers, data, Underscores(data)),
     LET data == HttpOk \o "{__\"amount\": 0__}" IN Disclosed(DefaultAllowedServers, data, Underscores(data)),
     Disclosed(DefaultAllowedServers,
               HttpOk \o "{\"transfer\":{\"id\":\"t-9\",\"amount\":1.15,"
               \o "\"beneficiary_iban\":\"de89 3704 0044 0532 0130 00\"}}", {}),
     Disclosed(DefaultAllowedServers, HttpOk \o "{\"transaction\":{\"id\":\"tx-5\",\"amount_cents\":0}}", {}),
     Disclosed(DefaultAllowedServers,
               HttpOk \o "{\"transactions\":[{\"amount_cents\":-100,\"beneficiary\":{\"iban\":\""
               \o Iban1 \o "\"}}]}", {})}

\* the good presentation, those that differ from it in what the primitive yields,
\* and those above
Presentations ==
    {GoodPresentation,
     Presentation(FALSE, TRUE, TRUE, NoneV, NoneV),
     Presentation(TRUE, FALSE, TRUE, NoneV, NoneV),
     Presentation(TRUE, TRUE, FALSE, NoneV, NoneV),
     Presentation(TRUE, TRUE, TRUE, NoneV, Some([data |-> HttpOk \o TxJson, unauthed |-> {}])),
     Presentation(TRUE, TRUE, TRUE, Some(DefaultAllowedServers), NoneV)}
    \cup ServerPresentations \cup BodyPresentations


IntentHash1 == "0x0101010101010101010101010101010101010101010101010101010101010101"

AttestationRequest(presentation, intent_hash, expected_amount_cents, expected_beneficiary_iban) ==
    [presentation |-> presentation, intent_hash |-> intent_hash,
     expected_amount_cents |-> expected_amount_cents,
     expected_beneficiary_iban |-> expected_beneficiary_iban]

\* every presentation with matching expectations; every body with both
\* expectations at their defaults and with an expected IBAN only; the good
\* presentation with other expectations and other hashes
Requests ==
    {AttestationRequest(p, IntentHash1, 100, Iban1) : p \in Presentations}
    \cup {AttestationRequest(p, IntentHash1, 0, i) : p \in BodyPresentations, i \in {"", Iban1}}
    \cup {AttestationRequest(GoodPresentation, IntentHash1, a, Iban1) : a \in {0 - 1, 0, 250}}
    \cup {AttestationRequest(GoodPresentation, IntentHash1, a, i) :
              a \in {0 - 1, 0, 100},
              i \in {"", "de89 3704 0044 0532 0130 00", "FR7612345678901234567890"}}
    \cup {AttestationRequest(GoodPresentation, h, 100, Iban1) :
              h \in {"0x1234", "0xzz", SubSeq(IntentHash1, 3, Len(IntentHash1))}}

\* the requests sent to a service that validates intents on-chain: the good
\* presentation under each expectation and hash, and one presentation that fails
\* each later stage
ChainRequests ==
    {AttestationRequest(GoodPresentation, IntentHash1, a, Iban1) : a \in {0 - 1, 0, 100, 250}}
    \cup {AttestationRequest(GoodPresentation, h, 100, Iban1) :
              h \in {"0x1234", "0xzz", SubSeq(IntentHash1, 3, Len(IntentHash1))}}
    \cup {AttestationRequest(Presentation(TRUE, TRUE, FALSE, NoneV, NoneV), IntentHash1, 100, Iban1),
          AttestationRequest(GoodPresentation, IntentHash1, 100, "FR7612345678901234567890")}

\* the environments the service is started in
Env(api_keys, rate_limit, chain, allowed_servers) ==
    [SOLVER_API_KEYS |-> api_keys, RATE_LIMIT_PER_MINUTE |-> rate_limit,
     chain |-> chain, ALLOWED_SERVERS |-> allowed_servers]



OnChain == Some([offramp_contract |-> Rep(52, 20)])

\* no keys, with and without chain validation, under each allow-list; one good key
\* under each rate limit, with and without chain validation; keys whose address
\* text is malformed, with chain validation
Envs ==
    {Env("", Some(1), chain, allowed) : chain \in {NoneV, OnChain}, allowed \in {NoneV, Some("qonto.com, api.bank.eu"), Some("")}}
    \cup {Env("k1:" \o SolverAEnv, Some(limit), chain, NoneV) :
              limit \in {1, MaxRateLimit}, chain \in {NoneV, OnChain}}
    \cup {Env(keys, Some(MaxRateLimit), OnChain, NoneV) : keys \in {"k1:" \o SolverAEnv, "k1:0xABC", "k1:0xabcd"}}

(***************************************************************************)
(* The results of the calls the handler makes, computed once for each       *)
(* sample input                                                             *)
(***************************************************************************)
CreateAttestationOf ==
    [req \in Requests \cup ChainRequests, cfg \in {ConfigFromEnv(env) : env \in Envs}, ecdsa \in EcdsaOutcomes |->
        create_attestation(req, cfg, ecdsa)]

GetIntentOf == [reply \in IntentReplies |-> get_intent(reply)]

IsSolverAuthorizedOf == [reply \in AuthorizedReplies |-> is_solver_authorized(reply)]

\* what eth_call makes of each answer of the endpoint
EthCallOf == [reply \in IntentReplies \cup AuthorizedReplies |-> eth_call(reply)]

(***************************************************************************)
(* State                                                                    *)
(*   config, auth, chain   AppState (audit is the log below)                *)
(*   now                   the clock, in ticks                              *)
(*   pc                    position of the request being handled            *)
(*   request, solver_address, intent   locals of attest / validate_intent   *)
(*   api_key               Option of the request's X-Solver-API-Key header  *)
(*   stages                stages the request has run, with their outcomes  *)
(*   rpc_calls             calldata of the eth_calls the request has issued *)
(*   rpc_replies           what the endpoint answered to them, in order       *)
(*   response              Option of the HTTP response                      *)
(*   audit                 entries the request has passed to AuditLogger    *)
(*   limiter_calls         the calls of check_rate_limit made directly on   *)
(*                         the SolverAuth (LimiterSpec), with their results *)
(*   parsing               input and result of parse_payment_details        *)
(*   threads               the concurrent callers of check_rate_limit       *)
(*   lock                  holder of the write lock on rate_counters        *)
(***************************************************************************)
VARIABLES config, auth, chain, now, pc, request, solver_address, intent, stages, rpc_calls,
          rpc_replies, response, audit, limiter_calls, api_key, parsing, threads, lock

vars == <<config, auth, chain, now, pc, request, solver_address, intent, stages, rpc_calls,
          rpc_replies, response, audit, limiter_calls, api_key, parsing, threads, lock>>


Init ==
    /\ \E env \in Envs :
          /\ config = ConfigFromEnv(env)
          /\ auth = SolverAuthFromEnv(env)
          /\ chain = env.chain
    /\ now = 0
    /\ pc = "idle"
    /\ request = NoneV
    /\ solver_address = NoneV
    /\ intent = NoneV
    /\ stages = <<>>
    /\ rpc_calls = <<>>
    /\ rpc_replies = <<>>
    /\ response = NoneV
    /\ audit = <<>>
    /\ limiter_calls = <<>>
    /\ api_key = NoneV
    /\ parsing = NoneV
    /\ threads = <<>>
    /\ lock = NoneV

\* the handler moves to position next, having run next.steps and issued next.calls
Advance(next) ==
    /\ pc' = next.pc
    /\ stages' = stages \o next.steps
    /\ rpc_calls' = rpc_calls \o next.calls
    /\ response' = next.response
    /\ audit' = audit \o next.audit
    /\ intent' = next.intent

\* POST /attest arrives and runs up to its first suspension point
Attest ==
    /\ pc = "idle"
    /\ \E key \in ApiKeyHeaders, req \in (IF chain.some THEN ChainRequests ELSE Requests),
          ecdsa \in EcdsaOutcomes :
          LET Begin(begun) ==
                  /\ api_key' = key
                  /\ request' = Some(req)
                  /\ auth' = begun.auth
                  /\ solver_address' = begun.solver_address
                  /\ Advance(begun.next)
          IN  Begin(attest_begin(key, req, auth, chain, now,
                                 CreateAttestationOf[req, config, ecdsa]))
    /\ UNCHANGED <<config, chain, now, rpc_replies, limiter_calls, parsing, threads, lock>>

\* the endpoint answers the getIntent call
GetIntentReply ==
    /\ pc = "get_intent"
    /\ \E reply \in IntentReplies :
          /\ rpc_replies' = Append(rpc_replies, reply)
          /\ Advance(attest_on_intent(GetIntentOf[reply], request.val, solver_address.val))
    /\ UNCHANGED <<config, chain, auth, now, request, solver_address, limiter_calls, api_key, parsing, threads, lock>>

\* the endpoint answers the authorizedSolvers call
AuthorizedReply ==
    /\ pc = "is_solver_authorized"
    /\ \E reply \in AuthorizedReplies, ecdsa \in EcdsaOutcomes :
          /\ rpc_replies' = Append(rpc_replies, reply)
          /\ Advance(attest_on_authorized(IsSolverAuthorizedOf[reply], request.val,
                                          solver_address.val, intent.val,
                                          CreateAttestationOf[request.val, config, ecdsa]))
    /\ UNCHANGED <<config, chain, auth, now, request, solver_address, limiter_calls, api_key, parsing, threads, lock>>

\* the response has been sent; the next request can arrive
Finish ==
    /\ pc = "done"
    /\ pc' = "idle"
    /\ request' = NoneV
    /\ solver_address' = NoneV
    /\ intent' = NoneV
    /\ stages' = <<>>
    /\ rpc_calls' = <<>>
    /\ rpc_replies' = <<>>
    /\ response' = NoneV
    /\ audit' = <<>>
    /\ api_key' = NoneV
    /\ UNCHANGED <<config, chain, auth, now, limiter_calls, parsing, threads, lock>>

Next == Attest \/ GetIntentReply \/ AuthorizedReply \/ Finish

Spec == Init /\ [][Next]_vars

(***************************************************************************)
(* The rate limiter by itself: check_rate_limit is called on one SolverAuth *)
(* for several identities while the clock advances, as in                   *)
(* auth.rs::test_rate_limiting.  No request is being handled.               *)
(***************************************************************************)
\* the identities the limiter is asked about
Identities == {"0xtest", PlaceholderSolver}

\* the instants (in ticks) at which calls are made: around the ends of the
\* windows that start at 0, at one tick and at half a window
Instants == {0, 1, Window \div 2, Window - 1, Window, Window + 1,
             Window + Window \div 2, 2 * Window - 1, 2 * Window}

\* calls made in one behaviour
MaxCalls == MaxRateLimit + 2

LimiterInit ==
    /\ \E limit \in 1..MaxRateLimit :
          auth = SolverAuthFromEnv(Env("", Some(limit), NoneV, NoneV))
    /\ config = ConfigFromEnv(Env("", NoneV, NoneV, NoneV))
    /\ chain = NoneV
    /\ now = 0
    /\ pc = "idle"
    /\ request = NoneV
    /\ solver_address = NoneV
    /\ intent = NoneV
    /\ stages = <<>>
    /\ rpc_calls = <<>>
    /\ rpc_replies = <<>>
    /\ response = NoneV
    /\ audit = <<>>
    /\ limiter_calls = <<>>
    /\ api_key = NoneV
    /\ parsing = NoneV
    /\ threads = <<>>
    /\ lock = NoneV

\* one call of check_rate_limit at the present instant
CheckRateLimit ==
    /\ Len(limiter_calls) < MaxCalls
    /\ \E solver \in Identities :
          LET Record(limited) ==
                  /\ auth' = [auth EXCEPT !.rate_counters = limited.rate_counters]
                  /\ limiter_calls' = Append(limiter_calls,
                                             [solver_address |-> solver, instant |-> now,
                                              res |-> limited.res])
          IN  Record(check_rate_limit(auth, solver, now))
    /\ UNCHANGED <<config, chain, now, pc, request, solver_address, intent, stages, rpc_calls,
                   rpc_replies, response, audit, api_key, parsing, threads, lock>>

\* time passes
Tick ==
    /\ \E instant \in Instants : instant > now /\ now' = instant
    /\ UNCHANGED <<config, auth, chain, pc, request, solver_address, intent, stages, rpc_calls,
                   rpc_replies, response, audit, limiter_calls, api_key, parsing, threads, lock>>

LimiterNext == CheckRateLimit \/ Tick

LimiterSpec == LimiterInit /\ [][LimiterNext]_vars

(***************************************************************************)
(* check_rate_limit called from several request handlers at once.  Each      *)
(* caller runs the statements of the function one at a time:                 *)
(*   "idle"        before the call                                           *)
(*   "acquire"     took Instant::now(), waits for rate_counters.write()      *)
(*   "reset"       holds the guard and the entry, before the window test     *)
(*   "reset_start" wrote entry.0 = 0, before entry.1 = now                   *)
(*   "check"       before the limit test                                     *)
(*   "increment"   before entry.0 += 1                                       *)
(*   "done"        returned res; the guard is dropped                        *)
(* A caller also keeps what it saw: the counters when it got the guard, and  *)
(* whether it ever read an entry between the two writes of another caller's  *)
(* reset.                                                                    *)
(***************************************************************************)
\* the identity each concurrent caller asks about
Callers == <<"0xtest", "0xtest", "0xtest">>

ConcurrentInit ==
    /\ \E limit \in 1..MaxRateLimit :
          auth = SolverAuthFromEnv(Env("", Some(limit), NoneV, NoneV))
    /\ threads = [t \in 1..Len(Callers) |->
                    [pc |-> "idle", instant |-> 0, res |-> NoneV, window |-> NoneV,
                     at_lock |-> <<>>, saw_torn |-> FALSE]]
    /\ lock = NoneV
    /\ config = ConfigFromEnv(Env("", NoneV, NoneV, NoneV))
    /\ chain = NoneV
    /\ now = 0
    /\ pc = "idle"
    /\ request = NoneV
    /\ solver_address = NoneV
    /\ intent = NoneV
    /\ stages = <<>>
    /\ rpc_calls = <<>>
    /\ rpc_replies = <<>>
    /\ response = NoneV
    /\ audit = <<>>
    /\ limiter_calls = <<>>
    /\ api_key = NoneV
    /\ parsing = NoneV

\* caller t reads the entry of its identity: it sees a torn pair when another
\* caller stands between the two writes of a reset of that entry
ReadsEntry(t) ==
    [threads[t] EXCEPT !.saw_torn =
        @ \/ \E other \in DOMAIN threads \ {t} :
                 threads[other].pc = "reset_start" /\ Callers[other] = Callers[t]]

\* let now = Instant::now()
Begin(t) ==
    /\ threads[t].pc = "idle"
    /\ threads' = [threads EXCEPT ![t].pc = "acquire", ![t].instant = now]
    /\ UNCHANGED <<config, auth, chain, now, pc, request, solver_address, intent, stages,
                   rpc_calls, rpc_replies, response, audit, limiter_calls, api_key, parsing, lock>>

\* Acquire without waiting for the guard: a lock that excludes nobody
Acquire_unlocked(t) ==
    /\ threads[t].pc = "acquire"
    /\ lock' = Some(t)
    /\ LET Inserted(counters) ==
               /\ auth' = [auth EXCEPT !.rate_counters = counters]
               /\ threads' = [threads EXCEPT ![t].pc = "reset", ![t].at_lock = auth.rate_counters]
       IN  Inserted(IF Callers[t] \in DOMAIN auth.rate_counters THEN auth.rate_counters
                    ELSE (Callers[t] :> [count |-> 0, window_start |-> threads[t].instant])
                         @@ auth.rate_counters)
    /\ UNCHANGED <<config, chain, now, pc, request, solver_address, intent, stages,
                   rpc_calls, rpc_replies, response, audit, limiter_calls, api_key, parsing>>

\* rate_counters.write() returns the guard; entry(..).or_insert((0, now))
Acquire(t) ==
    /\ threads[t].pc = "acquire"
    /\ lock = NoneV
    /\ lock' = Some(t)
    /\ LET Inserted(counters) ==
               /\ auth' = [auth EXCEPT !.rate_counters = counters]
               /\ threads' = [threads EXCEPT ![t].pc = "reset", ![t].at_lock = auth.rate_counters]
       IN  Inserted(IF Callers[t] \in DOMAIN auth.rate_counters THEN auth.rate_counters
                    ELSE (Callers[t] :> [count |-> 0, window_start |-> threads[t].instant])
                         @@ auth.rate_counters)
    /\ UNCHANGED <<config, chain, now, pc, request, solver_address, intent, stages,
                   rpc_calls, rpc_replies, response, audit, limiter_calls, api_key, parsing>>

\* if now.duration_since(entry.1) >= window { entry.0 = 0;
ResetCount(t) ==
    /\ threads[t].pc = "reset"
    /\ IF duration_since(threads[t].instant, auth.rate_counters[Callers[t]].window_start) >= Window
       THEN /\ auth' = [auth EXCEPT !.rate_counters[Callers[t]].count = 0]
            /\ threads' = [threads EXCEPT ![t] = [ReadsEntry(t) EXCEPT !.pc = "reset_start"]]
       ELSE /\ auth' = auth
            /\ threads' = [threads EXCEPT ![t] = [ReadsEntry(t) EXCEPT !.pc = "check"]]
    /\ UNCHANGED <<config, chain, now, pc, request, solver_address, intent, stages,
                   rpc_calls, rpc_replies, response, audit, limiter_calls, api_key, parsing, lock>>

\* entry.1 = now; }
ResetStart(t) ==
    /\ threads[t].pc = "reset_start"
    /\ auth' = [auth EXCEPT !.rate_counters[Callers[t]].window_start = threads[t].instant]
    /\ threads' = [threads EXCEPT ![t].pc = "check"]
    /\ UNCHANGED <<config, chain, now, pc, request, solver_address, intent, stages,
                   rpc_calls, rpc_replies, response, audit, limiter_calls, api_key, parsing, lock>>

\* if entry.0 >= self.rate_limit { ... return Err(retry_after); }
Check(t) ==
    /\ threads[t].pc = "check"
    /\ LET Test(entry) ==
               IF entry.count >= auth.rate_limit
               THEN /\ threads' =
                           [threads EXCEPT ![t] =
                               [ReadsEntry(t) EXCEPT
                                   !.pc = "done",
                                   !.res = Some(Err((duration_since(Window,
                                                         duration_since(threads[t].instant,
                                                                        entry.window_start))
                                                     \div TicksPerSec) + 1))]]
                    /\ lock' = NoneV
               ELSE /\ threads' = [threads EXCEPT ![t] = [ReadsEntry(t) EXCEPT !.pc = "increment"]]
                    /\ lock' = lock
       IN  Test(auth.rate_counters[Callers[t]])
    /\ UNCHANGED <<config, auth, chain, now, pc, request, solver_address, intent, stages,
                   rpc_calls, rpc_replies, response, audit, limiter_calls, api_key, parsing>>

\* entry.0 += 1; Ok(())
Increment(t) ==
    /\ threads[t].pc = "increment"
    /\ auth' = [auth EXCEPT !.rate_counters[Callers[t]].count = @ + 1]
    /\ threads' = [threads EXCEPT ![t].pc = "done", ![t].res = Some(Ok("unit")),
                                  ![t].window = Some(auth.rate_counters[Callers[t]].window_start)]
    /\ lock' = NoneV
    /\ UNCHANGED <<config, chain, now, pc, request, solver_address, intent, stages,
                   rpc_calls, rpc_replies, response, audit, limiter_calls, api_key, parsing>>

ConcurrentNext ==
    \/ Tick
    \/ \E t \in DOMAIN threads :
          Begin(t) \/ Acquire(t) \/ ResetCount(t) \/ ResetStart(t) \/ Check(t) \/ Increment(t)

ConcurrentSpec == ConcurrentInit /\ [][ConcurrentNext]_vars

(***************************************************************************)
(* parse_payment_details by itself, applied to the body of a transaction    *)
(* whose amount and IBAN members are present or absent in every combination *)
(***************************************************************************)
\* the text of the member key with the value text, nothing when text is ""
JsonMember(key, text) == IF text = "" THEN "" ELSE "\"" \o key \o "\":" \o text \o ","

\* the member texts of a transaction: amounts and the five IBAN locations
Shape(amount_cents, local_amount_cents, amount, ibans) ==
    [amount_cents |-> amount_cents, local_amount_cents |-> local_amount_cents,
     amount |-> amount, ibans |-> ibans]

IbanTexts(path) == {"", "null", "\"" \o path \o "\""}
IbanPaths == <<"DE01TRANSFER", "DE02COUNTERPARTYIBAN", "DE03ACCOUNTNUMBER", "DE04BENEFICIARY",
               "DE05BENEFICIARYIBAN">>

Shapes ==
    {Shape(cents, local, amount, <<"", "", "", "", "">>) :
        cents \in {"", "100", "0", "-100", "\"100\"", "null", "1.5"},
        local \in {"", "500", "0"},
        amount \in {"", "1.15", "0.29", "2.5", "1.234", "7", "0", "0.004", "\"3\""}}
    \cup {Shape("100", "", "", <<a, b, c, d, e>>) :
              a \in IbanTexts(IbanPaths[1]), b \in IbanTexts(IbanPaths[2]),
              c \in IbanTexts(IbanPaths[3]), d \in IbanTexts(IbanPaths[4]),
              e \in IbanTexts(IbanPaths[5])}

\* the body of the transaction of a shape
ShapeJson(shape) ==
    "{\"transaction\":{"
    \o JsonMember("amount_cents", shape.amount_cents)
    \o JsonMember("local_amount_cents", shape.local_amount_cents)
    \o JsonMember("amount", shape.amount)
    \o "\"transfer\":{" \o JsonMember("counterparty_account_number", shape.ibans[1]) \o "\"x\":0},"
    \o "\"counterparty\":{" \o JsonMember("iban", shape.ibans[2])
                             \o JsonMember("account_number", shape.ibans[3]) \o "\"x\":0},"
    \o "\"beneficiary\":{" \o JsonMember("iban", shape.ibans[4]) \o "\"x\":0},"
    \o JsonMember("beneficiary_iban", shape.ibans[5])
    \o "\"id\":\"tx-1\"}}"

ParseInit ==
    /\ \E shape \in Shapes : parsing = [shape |-> shape, json |-> ShapeJson(shape), details |-> NoneV]
    /\ config = ConfigFromEnv(Env("", NoneV, NoneV, NoneV))
    /\ auth = SolverAuthFromEnv(Env("", NoneV, NoneV, NoneV))
    /\ chain = NoneV
    /\ now = 0
    /\ pc = "idle"
    /\ request = NoneV
    /\ solver_address = NoneV
    /\ intent = NoneV
    /\ stages = <<>>
    /\ rpc_calls = <<>>
    /\ rpc_replies = <<>>
    /\ response = NoneV
    /\ audit = <<>>
    /\ limiter_calls = <<>>
    /\ api_key = NoneV
    /\ threads = <<>>
    /\ lock = NoneV

\* parse_payment_details is applied to the body
ParsePaymentDetails ==
    /\ parsing.details = NoneV
    /\ LET Parse(details) == parsing' = [parsing EXCEPT !.details = Some(details.val)]
       IN  Parse(parse_payment_details(parsing.json))
    /\ UNCHANGED <<config, auth, chain, now, pc, request, solver_address, intent, stages,
                   rpc_calls, rpc_replies, response, audit, limiter_calls, api_key, threads, lock>>

ParseSpec == ParseInit /\ [][ParsePaymentDetails]_vars

(***************************************************************************)
(* Properties                                                               *)
(***************************************************************************)
\* the stages the request has run before its k-th stage
StagesBefore(k) == {stages[j] : j \in 1..(k - 1)}
StageNamesBefore(k) == {stages[j].stage : j \in 1..(k - 1)}
AllStages == StagesBefore(Len(stages) + 1)

\* the request has been answered with HTTP status code
Answered(code) == pc = "done" /\ response.some /\ response.val.status = code

\* what validate_intent returned for the two answers the endpoint gave
ValidateIntentReturnedOk ==
    /\ Len(rpc_replies) = 2
    /\ LET first == validate_intent_on_intent(get_intent(rpc_replies[1]), solver_address.val)
       IN  /\ first.kind = "call"
           /\ LET second == validate_intent_on_authorized(is_solver_authorized(rpc_replies[2]),
                                                          first.intent.val,
                                                          solver_address.val,
                                                          request.val.expected_amount_cents)
              IN  second.kind = "return" /\ second.res.ok

\* C1: a 200 response carries a signature and is given only if, for the same
\* request, the presentation verified, validate_payment passed and, when a chain
\* client is configured, validate_intent returned Ok; sign_attestation runs only
\* after all of these stages ran and none of the stages before it failed.
C1_NoPartialAttestation ==
    /\ Answered(200) =>
          LET verification == verify_presentation(request.val.presentation, config.allowed_servers)
          IN  /\ "signature" \in DOMAIN response.val.body
              /\ request.val.presentation.base64_ok
              /\ verification.res.ok
              /\ validate_payment(verification.res.val, request.val).ok
              /\ chain.some => ValidateIntentReturnedOk
    /\ \A k \in 1..Len(stages) :
          stages[k].stage = "sign_attestation" =>
              /\ \A st \in StagesBefore(k) : st.ok
              /\ {"verify", "allowed_servers", "parse_payment_details", "validate_payment"}
                     \subseteq StageNamesBefore(k)
              /\ chain.some => "validate_intent" \in StageNamesBefore(k)

\* a signed 200 response to a request with non-default expectations, after chain validation
C1_Witness ==
    /\ Answered(200)
    /\ chain.some
    /\ request.val.expected_amount_cents > 0
    /\ request.val.expected_beneficiary_iban # ""
    /\ Stage("sign_attestation", TRUE) \in AllStages

(***************************************************************************)
(* What the request has seen of the chain, read from the raw answers of    *)
(* the endpoint by the ABI layout of OffRampV3.getIntent                    *)
(***************************************************************************)
\* the bytes returned to the k-th eth_call of the request, or its error
Returned(k) == EthCallOf[rpc_replies[k]]

IntentExists(result) == Len(result) >= 288 /\ SubSeq(result, 45, 64) # Zeros(20)
StatusByte(result) == result[160]
AssignedSolver(result) == SubSeq(result, 237, 256)
UsdcWord(result) == SubSeq(result, 65, 96)
FiatWord(result) == SubSeq(result, 289, 320)

\* the value of a 32-byte word below 2^24
WordCents(word) == word[30] * 65536 + word[31] * 256 + word[32]

\* the 20 bytes of the requesting solver's address, or the error of decoding it
RequestingSolver == hex_decode(trim_start_matches(solver_address.val, "0x"))

SolverMatches(result) ==
    \/ AssignedSolver(result) = Zeros(20)
    \/ RequestingSolver.ok /\ AssignedSolver(result) = RequestingSolver.val

AuthorizedWord(result) == Len(result) >= 32 /\ result[32] # 0

\* validate_intent returned Ok; the request was refused with reason; the handler panicked
ValidateIntentOk == Stage("validate_intent", TRUE) \in AllStages
Rejected(reason) ==
    /\ Answered(400)
    /\ "success" \in DOMAIN response.val.body
    /\ response.val.body = ErrorBody(reason)
HandlerPanicked == pc = "done" /\ response.val.status = 0

\* C2: for an existing Committed intent whose solver and authorization checks pass
\* and whose committed fiat amount is positive, validate_intent returns Ok exactly
\* when the claimed amount is at least the committed one (for a positive claimed
\* amount and a usdcAmount word that fits 128 bits, so that the conversion does
\* not panic).
C2_AmountCrossCheck ==
    (pc = "done" /\ Len(rpc_replies) = 2 /\ Returned(1).ok /\ Returned(2).ok) =>
        LET result == Returned(1).val
        IN  (/\ Len(result) >= 320
             /\ IntentExists(result)
             /\ StatusByte(result) = 2
             /\ SolverMatches(result)
             /\ AuthorizedWord(Returned(2).val)
             /\ SubSeq(UsdcWord(result), 1, 16) = Zeros(16)
             /\ SubSeq(FiatWord(result), 1, 29) = Zeros(29)
             /\ WordCents(FiatWord(result)) > 0
             /\ request.val.expected_amount_cents > 0)
            => (ValidateIntentOk <=>
                    request.val.expected_amount_cents >= WordCents(FiatWord(result)))

\* the place of a stage in the pipeline of one request
StageRank(stage) ==
    CASE stage = "authenticate" -> 1
      [] stage = "check_rate_limit" -> 2
      [] stage \in {"intent_hash", "get_intent", "status", "solver", "is_solver_authorized",
                    "amount", "validate_intent"} -> 3
      [] stage \in {"base64", "deserialize", "verify", "server_name", "allowed_servers",
                    "transcript", "extract_json_body", "parse_payment_details"} -> 4
      [] stage = "validate_payment" -> 5
      [] stage \in {"decode_bytes32", "sign_attestation"} -> 6

\* C3: the stages of a request run in the order authentication, rate limit, chain
\* validation (with a chain client only), presentation verification, expectation
\* cross-check, signing, each only after the one before succeeded; a failed chain
\* validation ends the request with a 400 before any verification or signing stage
\* (the handler's panics aside), and a 429 request has issued no chain call.
C3_PipelineOrder ==
    /\ \A k \in 1..(Len(stages) - 1) :
          /\ stages[k].ok
          /\ StageRank(stages[k].stage) <= StageRank(stages[k + 1].stage)
    /\ \A k \in 1..Len(stages) :
          LET PassedBefore(stage) == Stage(stage, TRUE) \in StagesBefore(k)
              Ranked(rank) ==
                  /\ rank > 1 => PassedBefore("authenticate")
                  /\ rank > 2 => PassedBefore("check_rate_limit")
                  /\ rank = 3 => chain.some
                  /\ rank > 3 /\ chain.some => PassedBefore("validate_intent")
                  /\ rank > 4 => PassedBefore("parse_payment_details")
                  /\ rank > 5 => PassedBefore("validate_payment")
          IN  Ranked(StageRank(stages[k].stage))
    /\ \A k \in 1..Len(stages) :
          (StageRank(stages[k].stage) = 3 /\ ~stages[k].ok) =>
              /\ pc = "done"
              /\ ~HandlerPanicked => Answered(400)
              /\ \A j \in 1..Len(stages) : StageRank(stages[j].stage) <= 3
    /\ Answered(429) =>
          /\ rpc_calls = <<>>
          /\ stages = <<Stage("authenticate", TRUE), Stage("check_rate_limit", FALSE)>>

\* a request whose presentation would verify is refused with a 400 by chain validation
C3_Witness ==
    /\ Answered(400)
    /\ Stage("status", FALSE) \in AllStages
    /\ request.val.presentation = GoodPresentation
    /\ request.val.intent_hash = IntentHash1

\* the checks of validate_intent, in the order of the code
ValidateIntentOrder == <<"get_intent", "status", "solver", "is_solver_authorized", "amount">>

\* C4: validate_intent answers with the error of the first failing check in the
\* order existence, status, solver match, authorization, amount; a check runs only
\* after the checks before it passed; at most one getIntent call and one
\* authorizedSolvers call are issued, the second only for an existing Committed
\* intent whose solver check passed.
C4_ShortCircuitOrder ==
    /\ Len(rpc_calls) <= 2
    /\ Len(rpc_replies) <= Len(rpc_calls)
    /\ Len(rpc_calls) >= 1 =>
          rpc_calls[1] = "0x" \o hex_encode(get_intent_calldata(
                                     api_decode_bytes32(request.val.intent_hash).val))
    /\ Len(rpc_calls) = 2 =>
          /\ Len(rpc_replies) >= 1
          /\ Returned(1).ok
          /\ IntentExists(Returned(1).val)
          /\ StatusByte(Returned(1).val) = 2
          /\ SolverMatches(Returned(1).val)
          /\ rpc_calls[2] = "0x" \o hex_encode(is_solver_authorized_calldata(solver_address.val).val)
    /\ \A k \in 1..Len(stages), i \in 1..Len(ValidateIntentOrder) :
          stages[k].stage = ValidateIntentOrder[i] =>
              \A j \in 1..(i - 1) : Stage(ValidateIntentOrder[j], TRUE) \in StagesBefore(k)
    /\ (pc = "done" /\ Len(rpc_replies) >= 1 /\ ~HandlerPanicked) =>
          LET First(got) ==
                  IF ~got.ok THEN Rejected(got.err)
                  ELSE IF ~IntentExists(got.val) THEN Rejected("Intent does not exist on-chain")
                  ELSE IF StatusByte(got.val) # 2
                  THEN Rejected("Intent is not ready for fulfillment")
                  ELSE IF AssignedSolver(got.val) # Zeros(20) /\ ~RequestingSolver.ok
                  THEN Rejected("Invalid solver address")
                  ELSE IF ~SolverMatches(got.val) THEN Rejected("Solver mismatch")
                  ELSE IF ~is_solver_authorized_calldata(solver_address.val).ok
                  THEN Rejected(is_solver_authorized_calldata(solver_address.val).err)
                  ELSE Len(rpc_replies) = 2
              Second(answer) ==
                  IF ~answer.ok THEN Rejected(answer.err)
                  ELSE IF ~AuthorizedWord(answer.val) THEN Rejected("Solver is not authorized")
                  ELSE Stage("is_solver_authorized", TRUE) \in AllStages
          IN  /\ First(Returned(1))
              /\ Len(rpc_replies) = 2 => Second(Returned(2))

\* an intent that fails both the status check and the solver check is refused for
\* its status, and no authorizedSolvers call is made
C4_Witness ==
    /\ Rejected("Intent is not ready for fulfillment")
    /\ Len(rpc_calls) = 1
    /\ Len(rpc_replies) = 1
    /\ Returned(1).ok
    /\ ~SolverMatches(Returned(1).val)

\* C5: validate_intent returns Ok only if the authorizedSolvers result holds at least
\* 32 bytes and its byte 31 is non-zero; is_solver_authorized answers true exactly
\* then, and on a result shorter than 32 bytes the request is refused as not authorized.
C5_AuthorizationMandatory ==
    /\ ValidateIntentOk =>
          /\ Len(rpc_replies) = 2
          /\ Returned(2).ok
          /\ AuthorizedWord(Returned(2).val)
    /\ (pc = "done" /\ Len(rpc_replies) = 2 /\ Returned(2).ok) =>
          LET Answer(result, is_authorized) ==
                  /\ is_authorized = Ok(AuthorizedWord(result))
                  /\ Rejected("Solver is not authorized") <=> ~AuthorizedWord(result)
                  /\ Len(result) < 32 => Rejected("Solver is not authorized")
          IN  Answer(Returned(2).val, is_solver_authorized(rpc_replies[2]))

\* a result of 31 bytes is refused as not authorized
C5_Witness ==
    /\ Rejected("Solver is not authorized")
    /\ Len(rpc_replies) = 2
    /\ Returned(2).ok
    /\ Len(Returned(2).val) = 31

\* C6: with a non-zero assigned solver validate_intent returns Ok only if the 20
\* bytes of the requesting solver's address equal it, whatever the case of the hex
\* letters of the address; with a zero assigned solver every requesting solver
\* passes the solver check.
C6_SolverBinding ==
    /\ (ValidateIntentOk /\ AssignedSolver(Returned(1).val) # Zeros(20)) =>
          /\ RequestingSolver.ok
          /\ AssignedSolver(Returned(1).val) = RequestingSolver.val
    /\ solver_address.some =>
          LET SameBytes(hex) == /\ hex_decode(to_uppercase(hex)) = hex_decode(hex)
                                /\ hex_decode(to_lowercase(hex)) = hex_decode(hex)
          IN  SameBytes(trim_start_matches(solver_address.val, "0x"))
    /\ (Len(rpc_replies) >= 1 /\ Returned(1).ok) =>
          LET Unassigned(result) ==
                  (IntentExists(result) /\ StatusByte(result) = 2
                   /\ AssignedSolver(result) = Zeros(20))
                  => Stage("solver", TRUE) \in AllStages
          IN  Unassigned(Returned(1).val)

\* an intent assigned to a solver is validated for that solver, whose address was
\* configured with upper-case hex letters
C6_Witness ==
    /\ ValidateIntentOk
    /\ AssignedSolver(Returned(1).val) = SolverA
    /\ solver_address.val # SolverAEnv
    /\ solver_address.val = to_lowercase(SolverAEnv)

\* C7: validate_intent returns Ok only if the status byte of the intent is 2
\* (Committed); an existing intent with any other status is refused as not ready;
\* IntentStatus::from yields Committed for 2 only and None for every byte outside 1..5.
C7_StatusGate ==
    /\ ValidateIntentOk => StatusByte(Returned(1).val) = 2
    /\ (pc = "done" /\ Len(rpc_replies) >= 1 /\ Returned(1).ok) =>
          LET Gate(result) ==
                  (IntentExists(result) /\ StatusByte(result) # 2)
                  => /\ Rejected("Intent is not ready for fulfillment")
                     /\ Len(rpc_calls) = 1
          IN  Gate(Returned(1).val)
    /\ \A v \in 0..255 :
          /\ IntentStatusFrom(v) = "Committed" <=> v = 2
          /\ v \notin 1..5 => IntentStatusFrom(v) = "None"
          /\ v \in {1, 3, 4, 5} =>
                IntentStatusFrom(v) \in {"PendingQuote", "Fulfilled", "Cancelled", "Expired"}

\* an intent whose status byte is outside 1..5 is refused as not ready
C7_Witness ==
    /\ Rejected("Intent is not ready for fulfillment")
    /\ Returned(1).ok
    /\ StatusByte(Returned(1).val) \notin 0..5

\* C8: get_intent reports no intent exactly when the eth_call result is shorter
\* than 288 bytes or its depositor address is zero, and an intent otherwise;
\* validate_intent then refuses with "Intent does not exist on-chain" and issues
\* no further call.
C8_IntentExistence ==
    (Len(rpc_replies) >= 1 /\ Returned(1).ok) =>
        LET Got(result, got) ==
                /\ got.ok
                /\ got.val.some <=> IntentExists(result)
                /\ got.val.some =>
                      /\ got.val.val.owner = SubSeq(result, 45, 64)
                      /\ got.val.val.solver = AssignedSolver(result)
                      /\ Stage("get_intent", TRUE) \in AllStages
                /\ ~got.val.some =>
                      /\ Rejected("Intent does not exist on-chain")
                      /\ Len(rpc_calls) = 1
                      /\ stages[Len(stages)] = Stage("get_intent", FALSE)
        IN  Got(Returned(1).val, get_intent(rpc_replies[1]))

\* a result one byte short of the minimum is answered as a missing intent
C8_Witness ==
    /\ Rejected("Intent does not exist on-chain")
    /\ Returned(1).ok
    /\ Len(Returned(1).val) = 287

\* C9: when the endpoint is unreachable, or its envelope is unparsable, carries
\* neither a result nor an error, or carries an error, get_intent yields an error
\* and the request is not answered "Intent does not exist on-chain".
C9_RpcFailureNotNotFound ==
    Len(rpc_replies) >= 1 =>
        LET Failed(reply) ==
                \/ reply.transport # "ok"
                \/ ~reply.parsed
                \/ reply.error.some
                \/ ~reply.result.some
        IN  Failed(rpc_replies[1]) =>
                /\ ~get_intent(rpc_replies[1]).ok
                /\ ~Rejected("Intent does not exist on-chain")

\* part occurs within whole
IsSubstring(part, whole) ==
    \/ part = ""
    \/ \E i \in 1..Len(whole) : \E j \in i..Len(whole) : SubSeq(whole, i, j) = part

\* the disclosed server identity of the request
ServerIdentity == request.val.presentation.server_name.val

\* C10 as stated: the identity is accepted exactly when it is a substring of at
\* least one entry of the allow-list.
C10_IdentityWithinEntry ==
    \A k \in 1..Len(stages) :
        stages[k].stage = "allowed_servers" =>
            (stages[k].ok <=>
                \E e \in 1..Len(config.allowed_servers) :
                    IsSubstring(ServerIdentity, config.allowed_servers[e]))

\* C10: verify_presentation accepts the disclosed server identity exactly when at
\* least one entry of the allow-list is a substring of the identity, and refuses
\* with UnexpectedServer otherwise.
C10_EntryWithinIdentity ==
    \A k \in 1..Len(stages) :
        stages[k].stage = "allowed_servers" =>
            /\ stages[k].ok <=>
                  \E e \in 1..Len(config.allowed_servers) :
                      IsSubstring(config.allowed_servers[e], ServerIdentity)
            /\ ~stages[k].ok =>
                  /\ pc = "done"
                  /\ response.val.status = 400
                  /\ response.val.body.error = AttestationError("UnexpectedServer", ServerIdentity)

\* an identity that merely contains the allowed entry is accepted
C10_Witness ==
    /\ Stage("allowed_servers", TRUE) \in AllStages
    /\ \A e \in 1..Len(config.allowed_servers) :
          /\ config.allowed_servers[e] # ""
          /\ config.allowed_servers[e] # ServerIdentity
          /\ ~IsSubstring(ServerIdentity, config.allowed_servers[e])

\* the stages of verify_presentation that read the transcript or extract from it
ExtractionStages == {"transcript", "extract_json_body", "parse_payment_details"}

\* C11: when no entry of allowed_servers occurs within the disclosed server name,
\* verify_presentation rejects with UnexpectedServer, and no stage that reads the
\* transcript or extracts from it has run; such a stage runs only after the
\* allow-list test passed.
C11_RejectBeforeExtraction ==
    /\ \A k \in 1..Len(stages) :
          /\ stages[k].stage \in ExtractionStages =>
                Stage("allowed_servers", TRUE) \in StagesBefore(k)
          /\ stages[k] = Stage("allowed_servers", FALSE) =>
                /\ k = Len(stages)
                /\ StageNamesBefore(k) \cap ExtractionStages = {}
    /\ (pc = "done" /\ Stage("server_name", TRUE) \in AllStages) =>
          LET Unlisted(verification) ==
                  (\A e \in 1..Len(config.allowed_servers) :
                      ~IsSubstring(config.allowed_servers[e], ServerIdentity))
                  => /\ ~verification.res.ok
                     /\ verification.res.err.kind = "UnexpectedServer"
                     /\ \A s \in 1..Len(verification.steps) :
                           verification.steps[s].stage \notin ExtractionStages
                     /\ response.val.body.error = verification.res.err
                     /\ {st.stage : st \in AllStages} \cap ExtractionStages = {}
          IN  Unlisted(verify_presentation(request.val.presentation, config.allowed_servers))

\* a presentation of a server outside the allow-list, whose transcript holds a
\* complete payment, is refused
C11_Witness ==
    /\ pc = "done"
    /\ Stage("allowed_servers", FALSE) \in AllStages
    /\ request.val.presentation.transcript.some
    /\ request.val.presentation.transcript.val.data = HttpOk \o TxJson

\* C12: once the presentation verified, its server is allowed and its transcript is
\* present, verify_presentation returns a VerifiedPayment whatever the body holds:
\* neither extract_json_body nor parse_payment_details makes it return an error.
C12_ExtractionFailureNotRejection ==
    (pc = "done" /\ Stage("transcript", TRUE) \in AllStages) =>
        LET Extracted(verification) ==
                /\ verification.res.ok
                /\ Stage("extract_json_body", FALSE) \notin AllStages
                /\ Stage("parse_payment_details", FALSE) \notin AllStages
        IN  Extracted(verify_presentation(request.val.presentation, config.allowed_servers))

\* what verify_presentation returned for the request, which reached validate_payment
VerifiedPayment == verify_presentation(request.val.presentation, config.allowed_servers).res.val
ReachedValidatePayment == pc = "done" /\ "validate_payment" \in {st.stage : st \in AllStages}
CrossCheckPassed == Stage("validate_payment", TRUE) \in AllStages
RefusedWith(kind, msg) ==
    /\ pc = "done"
    /\ response.val.status = 400
    /\ "code" \in DOMAIN response.val.body
    /\ response.val.body = [error |-> AttestationError(kind, msg), code |-> 400]

\* C13: for a request whose expected_amount_cents is non-zero, validate_payment
\* passes only if a verified amount is present and equals it; an absent verified
\* amount is refused with MissingField, a different one with an amount mismatch,
\* and nothing is signed.
C13_ExpectedAmount ==
    (ReachedValidatePayment /\ request.val.expected_amount_cents # 0) =>
        LET Amount(verified) ==
                /\ CrossCheckPassed =>
                      /\ verified.amount_cents.some
                      /\ verified.amount_cents.val = request.val.expected_amount_cents
                /\ ~verified.amount_cents.some =>
                      /\ RefusedWith("MissingField", "amount_cents")
                      /\ "sign_attestation" \notin {st.stage : st \in AllStages}
                /\ (verified.amount_cents.some
                    /\ verified.amount_cents.val # request.val.expected_amount_cents) =>
                      /\ RefusedWith("InvalidPaymentData", "Amount mismatch")
                      /\ "sign_attestation" \notin {st.stage : st \in AllStages}
        IN  Amount(VerifiedPayment)

C15_EscapeHatch ==
    ReachedValidatePayment =>
        LET Hatch(verified) ==
                IF request.val.expected_amount_cents = 0
                   /\ request.val.expected_beneficiary_iban = ""
                THEN CrossCheckPassed
                ELSE CrossCheckPassed =>
                        \/ /\ request.val.expected_amount_cents # 0
                           /\ verified.amount_cents = Some(request.val.expected_amount_cents)
                        \/ /\ request.val.expected_beneficiary_iban # ""
                           /\ verified.beneficiary_iban.some
                           /\ normalize_iban(request.val.expected_beneficiary_iban)
                                  = normalize_iban(verified.beneficiary_iban.val)
        IN  Hatch(VerifiedPayment)

\* the bytes the intent_hash of the request stands for, or the error of decoding it
RequestedHash == hex_decode(trim_start_matches(request.val.intent_hash, "0x"))

\* the struct hash preimage of the digest returned in a success response:
\* <<type_hash, intent_hash, amount, timestamp, hash(payment_id), hash(data)>>
SignedPayload == response.val.body.digest.keccak[4].keccak

\* C16: a request whose intent_hash does not decode to exactly 32 bytes is answered
\* with a 4xx status and sign_attestation never runs for it, with or without a
\* chain client (with one, no RPC call is issued either); the intent_hash of every
\* signed payload is the 32 bytes decoded from the request.
C16_IntentHashValidity ==
    /\ (pc = "done" /\ ~(RequestedHash.ok /\ Len(RequestedHash.val) = 32)) =>
          /\ response.val.status \in {400, 401, 429}
          /\ "sign_attestation" \notin {st.stage : st \in AllStages}
          /\ rpc_calls = <<>>
          /\ (chain.some /\ Stage("check_rate_limit", TRUE) \in AllStages) =>
                stages[Len(stages)] = Stage("intent_hash", FALSE)
    /\ \A k \in 1..Len(stages) :
          stages[k].stage = "sign_attestation" =>
              RequestedHash.ok /\ Len(RequestedHash.val) = 32
    /\ Answered(200) =>
          /\ Len(SignedPayload[2]) = 32
          /\ SignedPayload[2] = RequestedHash.val

\* without a chain client, a request whose presentation verifies but whose
\* intent_hash holds two bytes is refused before signing
C16_Witness ==
    /\ Answered(400)
    /\ ~chain.some
    /\ request.val.intent_hash = "0x1234"
    /\ stages[Len(stages)] = Stage("decode_bytes32", FALSE)

\* the bytes of the signature returned in a success response
ReturnedSignature == hex_decode(trim_start_matches(response.val.body.signature, "0x")).val

\* C17: every signature returned is 65 bytes: the 32 bytes of r, the 32 bytes of s
\* and one byte v = recovery_id + 27, which is 27 or 28.
C17_SignatureLayout ==
    Answered(200) =>
        LET Layout(sig) ==
                /\ Len(sig) = 65
                /\ sig[65] \in {27, 28}
                /\ \E ecdsa \in EcdsaOutcomes :
                      /\ ecdsa.ok
                      /\ SubSeq(sig, 1, 32) = ecdsa.r
                      /\ SubSeq(sig, 33, 64) = ecdsa.s
                      /\ sig[65] = ecdsa.recovery_id + 27
        IN  Layout(ReturnedSignature)

\* a signature with recovery id 1 whose r has a leading zero byte is returned
C17_Witness ==
    /\ Answered(200)
    /\ ReturnedSignature[1] = 0
    /\ ReturnedSignature[65] = 28

\* the domain separator of the service, and the digest of a payload hash under it
ServiceDomain == domain_separator(AttestationDomainNew(config.chain_id, config.verifier_contract))
DigestOf(payload_hash) == keccak256(<<25, 1, ServiceDomain, payload_hash>>)

\* the payload hash recomputed from the request, the payment summary of the
\* response and a hash of the raw data
PayloadHash(body, raw_data_hash) ==
    keccak256(<<keccak256("PaymentAttestation(bytes32 intentHash,uint256 amount,uint256 timestamp,string paymentId,bytes32 dataHash)"),
                RequestedHash.val,
                Zeros(24) \o I64AsU64(body.payment.amount_cents),
                Zeros(24) \o BeBytes(body.payment.timestamp, 8),
                keccak256(IF body.payment.transaction_id.some
                          THEN body.payment.transaction_id.val ELSE ""),
                raw_data_hash>>)

\* C18 as stated: in a success response the digest is the hash of 0x19, 0x01, the
\* domain separator and the payload hash of the validated payload, and the hash
\* field returned beside it is that payload hash.
C18_ReturnedPayloadHash ==
    Answered(200) =>
        LET Consistent(body, payload_hash) ==
                /\ body.digest = DigestOf(payload_hash)
                /\ body.data_hash = payload_hash
        IN  Consistent(response.val.body,
                       PayloadHash(response.val.body, keccak256(as_bytes(VerifiedPayment.response_body))))

\* C18: in a success response the digest is the hash of 0x19, 0x01, the domain
\* separator and the payload hash of the validated payload, and the hash field
\* returned beside it is the hash of the raw disclosed body, the last member of
\* that payload hash; the digest can be recomputed from the domain, the request's
\* intent_hash, the returned payment summary and the returned hash.
C18_ReturnedDataHash ==
    Answered(200) =>
        LET Consistent(body) ==
                /\ body.data_hash = keccak256(as_bytes(VerifiedPayment.response_body))
                /\ body.digest = DigestOf(PayloadHash(body, body.data_hash))
        IN  Consistent(response.val.body)

\* a success response for a payment with a transaction id and a positive amount
C18_Witness ==
    /\ Answered(200)
    /\ response.val.body.payment.transaction_id = Some("tx-123")
    /\ response.val.body.payment.amount_cents = 100
    /\ response.val.body.data_hash = keccak256(as_bytes(TxJson))

\* the intent read from the chain is ready to fulfill and every check before the
\* amount passes for the requesting solver
ReadyForSolver ==
    /\ pc = "done" /\ Len(rpc_replies) = 2 /\ Returned(1).ok /\ Returned(2).ok
    /\ Len(Returned(1).val) >= 320
    /\ IntentExists(Returned(1).val)
    /\ StatusByte(Returned(1).val) = 2
    /\ SolverMatches(Returned(1).val)
    /\ AuthorizedWord(Returned(2).val)
CommittedFiat == FiatWord(Returned(1).val)

CallsOf(solver) == SelectSeq(limiter_calls, LAMBDA call : call.solver_address = solver)

\* C20: for a limit L >= 1 and an identity with no prior calls, of the calls made
\* for it less than 60 seconds after its first one the first L return Ok and
\* the (L+1)-th returns Err(retry_after) with retry_after > 0.
C20_RateLimitCeiling ==
    \A solver \in Identities :
        LET InWindow(calls) ==
                \A k \in 1..Len(calls) :
                    calls[k].instant - calls[1].instant < Window =>
                        /\ k <= auth.rate_limit => calls[k].res.ok
                        /\ k = auth.rate_limit + 1 =>
                               ~calls[k].res.ok /\ calls[k].res.err > 0
        IN  InWindow(CallsOf(solver))

\* under the largest limit, an identity made one call more than the limit within
\* one window, the last one tick before the window's end, and was refused
C20_Witness ==
    LET Refused(calls) ==
            /\ auth.rate_limit = MaxRateLimit
            /\ Len(calls) = MaxRateLimit + 1
            /\ calls[1].instant = 1
            /\ calls[Len(calls)].instant = Window
            /\ ~calls[Len(calls)].res.ok
    IN  Refused(CallsOf("0xtest"))

\* the calls for solver that were admitted at an instant of the interval of one
\* window that starts at instant from
AdmittedWithin(solver, from) ==
    {k \in 1..Len(limiter_calls) :
        /\ limiter_calls[k].solver_address = solver
        /\ limiter_calls[k].res.ok
        /\ limiter_calls[k].instant >= from
        /\ limiter_calls[k].instant < from + Window}

\* C21: for every identity and every interval of 60 seconds, whatever its first
\* instant, at most rate_limit calls for that identity are admitted inside it.
C21_SlidingWindowQuota ==
    \A solver \in Identities, from \in Instants :
        Cardinality(AdmittedWithin(solver, from)) <= auth.rate_limit

\* keys are configured; the request's key is one of them
KeysConfigured == DOMAIN auth.api_keys # {}
KnownKey == api_key.some /\ api_key.val \in DOMAIN auth.api_keys

\* the request was answered 401 and nothing else was done for it
Unauthorized ==
    /\ Answered(401)
    /\ solver_address = NoneV
    /\ stages = <<Stage("authenticate", FALSE)>>
    /\ rpc_calls = <<>>
    /\ rpc_replies = <<>>

\* what holds of a request from its arrival on
AuthenticationGateOfRequest ==
    pc # "idle" =>
        /\ (KeysConfigured /\ ~KnownKey) => Unauthorized
        /\ (KeysConfigured /\ KnownKey) =>
               /\ solver_address = Some(auth.api_keys[api_key.val])
               /\ stages[1] = Stage("authenticate", TRUE)
               /\ ~Answered(401)
        /\ ~KeysConfigured =>
               /\ solver_address = Some("0x0000000000000000000000000000000000000000")
               /\ stages[1] = Stage("authenticate", TRUE)
               /\ ~Answered(401)

\* the arrival of a request that is answered 401 leaves the rate counters as they were
AuthenticationGateOfArrival ==
    (pc = "idle" /\ pc' = "done" /\ response'.val.status = 401) => auth' = auth

\* C22: with at least one key configured, a request with a missing or unknown key
\* is answered 401 and nothing further happens for it (no rate counter is touched,
\* no eth_call is issued, no stage after authentication runs), and a request with
\* a known key proceeds under the address mapped to that key; with no key
\* configured every request proceeds under the zero-address placeholder.
C22_AuthenticationGate == []AuthenticationGateOfRequest /\ [][AuthenticationGateOfArrival]_vars

\* a request with an unknown key was answered 401 although the identity's rate
\* limit was already used up by earlier requests with the known key
C22_Witness ==
    /\ KeysConfigured
    /\ api_key = Some("nokey")
    /\ Unauthorized
    /\ \E solver \in DOMAIN auth.rate_counters : auth.rate_counters[solver].count = auth.rate_limit

\* C23: every outcome of a request (200, 400, 401, 429 or 500) is recorded exactly
\* once by the audit logger, with the intent hash of the request and, when the
\* request was authenticated, its solver identity.
C23_AuditCompleteness ==
    (pc = "done" /\ response.some /\ response.val.status \in {200, 400, 401, 429, 500}) =>
        /\ Len(audit) = 1
        /\ audit[1].intent_hash = request.val.intent_hash
        /\ solver_address.some => audit[1].solver_address = solver_address.val

\* the integers and the decimals written in the shapes: the value of an integer
\* text, and the hundredths of a decimal text truncated toward zero
IntegerTexts == ("100" :> 100) @@ ("0" :> 0) @@ ("-100" :> 0 - 100) @@ ("500" :> 500)
DecimalTexts == ("1.15" :> 115) @@ ("0.29" :> 29) @@ ("2.5" :> 250) @@ ("1.234" :> 123)
                @@ ("7" :> 700) @@ ("0" :> 0) @@ ("0.004" :> 0)

\* the amount a shape stands for: that of its cents member (amount_cents, else
\* local_amount_cents) when it holds an integer, else a hundred times the decimal
\* amount truncated; never Some(0)
ShapeAmount(shape) ==
    LET cents == IF shape.amount_cents # "" THEN shape.amount_cents
                 ELSE shape.local_amount_cents
        found == IF cents \in DOMAIN IntegerTexts THEN Some(IntegerTexts[cents])
                 ELSE IF shape.amount \in DOMAIN DecimalTexts
                 THEN Some(DecimalTexts[shape.amount])
                 ELSE NoneV
    IN  IF found = Some(0) THEN NoneV ELSE found

\* C24: the amount of a parsed transaction is that of its integer cents field
\* (amount_cents, else local_amount_cents) when there is one, otherwise a hundred
\* times its decimal amount truncated, and a zero amount is reported as absent.
C24_AmountExtraction ==
    (parsing # NoneV /\ parsing.details.some) =>
        /\ parsing.details.val.amount_cents = ShapeAmount(parsing.shape)
        /\ parsing.details.val.amount_cents # Some(0)

\* the IBAN a shape stands for: the string at the first of the five locations
\* that holds a string
ShapeIban(shape) ==
    LET hits == {k \in 1..Len(IbanPaths) : shape.ibans[k] \notin {"", "null"}}
    IN  IF hits = {} THEN NoneV
        ELSE Some(IbanPaths[CHOOSE k \in hits : \A other \in hits : k <= other])

\* C25: the beneficiary IBAN of a parsed transaction is the string found at the
\* first of transfer.counterparty_account_number, counterparty.iban,
\* counterparty.account_number, beneficiary.iban, beneficiary_iban that holds a
\* string, and it is absent only if none of them holds one.
C25_IbanLookupOrder ==
    (parsing # NoneV /\ parsing.details.some) =>
        parsing.details.val.beneficiary_iban = ShapeIban(parsing.shape)

\* C26: whatever the endpoint answers to the two eth_calls and whatever the text of
\* the requesting solver's identity is, validate_intent returns Ok or an error:
\* the handler never panics while decoding.
C26_DecodingNeverPanics ==
    (pc = "done" /\ chain.some /\ Len(rpc_replies) >= 1) => ~HandlerPanicked

\* the latest call of check_rate_limit
LastCall == limiter_calls[Len(limiter_calls)]

\* C28: with a limit of at least 1, a refusal carries 1 <= retry_after <= 61, and
\* the identity's next call, when made retry_after seconds or more after the
\* refusal, finds the window elapsed: it is admitted, and it leaves the identity's
\* counter at 1 in a window that starts at that call.
C28_RetryAfterSufficient ==
    \A solver \in Identities :
        LET Retried(calls) ==
                \A k \in 1..Len(calls) :
                    ~calls[k].res.ok =>
                        /\ calls[k].res.err >= 1 /\ calls[k].res.err <= WindowSecs + 1
                        /\ (/\ k < Len(calls)
                            /\ calls[k + 1].instant - calls[k].instant
                                   >= calls[k].res.err * TicksPerSec)
                           => /\ calls[k + 1].res.ok
                              /\ k + 1 = Len(calls) =>
                                     auth.rate_counters[solver]
                                         = [count |-> 1, window_start |-> calls[k + 1].instant]
        IN  Retried(CallsOf(solver))

\* a call refused half a second before the end of its window with retry_after 1,
\* and the next call for the identity, one second later, admitted
C28_Witness ==
    /\ Len(limiter_calls) >= 3
    /\ LET Retried(refused, next) ==
               /\ ~refused.res.ok /\ refused.res.err = 1
               /\ next.solver_address = refused.solver_address
               /\ next.instant - refused.instant = TicksPerSec
               /\ next.res.ok
       IN  Retried(limiter_calls[Len(limiter_calls) - 1], LastCall)

\* the entry of an identity in the rate counters, as an Option
CounterOf(counters, solver) ==
    IF solver \in DOMAIN counters THEN Some(counters[solver]) ELSE NoneV

\* a call of check_rate_limit leaves the entries of the other identities as they were
OthersUnchanged ==
    \A other \in Identities \ {LastCall'.solver_address} :
        CounterOf(auth'.rate_counters, other) = CounterOf(auth.rate_counters, other)

\* a call refused within an unexpired window leaves the identity's entry as it was
RefusalKeepsEntry ==
    LET Kept(before, after) ==
            (/\ ~LastCall'.res.ok
             /\ before.some
             /\ LastCall'.instant - before.val.window_start < Window)
                => after = before
    IN  Kept(CounterOf(auth.rate_counters, LastCall'.solver_address),
             CounterOf(auth'.rate_counters, LastCall'.solver_address))

\* C29 as stated: a call of check_rate_limit for A leaves the entries of every
\* other identity unchanged, an admitted call increases A's count by exactly 1,
\* and a call refused within an unexpired window leaves A's entry unchanged.
C29_AdmittedAddsOne ==
    [][limiter_calls' # limiter_calls =>
          /\ OthersUnchanged
          /\ RefusalKeepsEntry
          /\ LET Counted(before, after) ==
                     LastCall'.res.ok =>
                         after.val.count = (IF before.some THEN before.val.count ELSE 0) + 1
             IN  Counted(CounterOf(auth.rate_counters, LastCall'.solver_address),
                         CounterOf(auth'.rate_counters, LastCall'.solver_address))]_vars

\* C29: a call of check_rate_limit for A leaves the entries of every other
\* identity unchanged; an admitted call leaves A's count exactly 1 above its
\* count after the reset check (its previous count within an unexpired window, 0
\* for a new identity or an expired window, whose start then becomes the instant
\* of the call); and a call refused within an unexpired window leaves A's entry
\* unchanged.
C29_FrameConditions ==
    [][limiter_calls' # limiter_calls =>
          /\ OthersUnchanged
          /\ RefusalKeepsEntry
          /\ LET Counted(before, after) ==
                     LastCall'.res.ok =>
                         IF before.some /\ LastCall'.instant - before.val.window_start < Window
                         THEN after.val = [before.val EXCEPT !.count = @ + 1]
                         ELSE after.val = [count |-> 1, window_start |-> LastCall'.instant]
             IN  Counted(CounterOf(auth.rate_counters, LastCall'.solver_address),
                         CounterOf(auth'.rate_counters, LastCall'.solver_address))]_vars

\* a call for one identity was refused within its window while another identity
\* has an entry, and a call was admitted after the window of its identity expired
C29_Witness ==
    /\ Len(limiter_calls) >= 3
    /\ ~LastCall.res.ok
    /\ DOMAIN auth.rate_counters = Identities
    /\ \E k \in 2..Len(limiter_calls) :
          /\ limiter_calls[k].res.ok
          /\ limiter_calls[k].instant >= Window
          /\ \E j \in 1..(k - 1) :
                /\ limiter_calls[j].solver_address = limiter_calls[k].solver_address
                /\ limiter_calls[j].instant = 0

\* the amount word of the signed payload, and the amount reported beside it
SignedAmountWord == SignedPayload[3]
ReportedAmount == response.val.body.payment.amount_cents

\* C30: in every success response the amount of the signed payload, an unsigned
\* number, is numerically equal to payment.amount_cents of the response and to the
\* verified amount (0 when it is absent), negative verified amounts included.
C30_SignedAmountReported ==
    Answered(200) =>
        /\ ReportedAmount = (IF VerifiedPayment.amount_cents.some
                             THEN VerifiedPayment.amount_cents.val ELSE 0)
        /\ ReportedAmount >= 0
        /\ SignedAmountWord = BeBytes(ReportedAmount, 32)

\* the callers that hold the entry: between the guard and the return
InCriticalSection == {t \in DOMAIN threads : threads[t].pc \in {"reset", "reset_start", "check", "increment"}}

\* the callers admitted into the window that started at window_start
AdmittedInto(window_start) ==
    {t \in DOMAIN threads : /\ threads[t].pc = "done"
                            /\ threads[t].res = Some(Ok("unit"))
                            /\ threads[t].window = Some(window_start)}

\* a finished call returned what check_rate_limit returns on the counters it found
ReturnedAsAlone(t) ==
    threads[t].pc = "done" =>
        threads[t].res = Some(check_rate_limit([auth EXCEPT !.rate_counters = threads[t].at_lock],
                                               Callers[t], threads[t].instant).res)

\* C27: for any interleaving of concurrent check_rate_limit calls on one identity,
\* the reset, check and increment of a call run under exclusive access (only the
\* holder of the write guard is between acquiring it and returning), no call reads
\* the pair between the two writes of another call's reset, every call returns what
\* it would return alone on the counters it found, no increment is lost (with the
\* guard free the count is the number of calls admitted into the current window),
\* and no window admits more calls than the configured limit.
C27_LimiterAtomicity ==
    /\ \A t \in InCriticalSection : lock = Some(t)
    /\ InCriticalSection = {} => lock = NoneV
    /\ \A t \in DOMAIN threads : ~threads[t].saw_torn /\ ReturnedAsAlone(t)
    /\ \A solver \in DOMAIN auth.rate_counters :
          /\ lock = NoneV =>
                auth.rate_counters[solver].count
                    = Cardinality(AdmittedInto(auth.rate_counters[solver].window_start))
          /\ \A window_start \in Instants :
                Cardinality(AdmittedInto(window_start)) <= auth.rate_limit

\* C27 happens: all callers returned, one was admitted after a reset into the current
\* window, and one that took its instant before that window began was served after
\* it and refused
C27_Witness ==
    /\ \A t \in DOMAIN threads : threads[t].pc = "done"
    /\ \E solver \in DOMAIN auth.rate_counters :
          /\ auth.rate_counters[solver].window_start > 0
          /\ AdmittedInto(auth.rate_counters[solver].window_start) # {}
          /\ \E t \in DOMAIN threads :
                /\ ~threads[t].res.val.ok
                /\ threads[t].instant < auth.rate_counters[solver].window_start

====
